---- MODULE Spec2Model ----
(***************************************************************************)
(* Verification model of the point-cloud tile generator                    *)
(* (samples-generator/lib/createPointCloudTile.js).                        *)
(*                                                                         *)
(* Numbers.  JavaScript numbers are modelled in fixed point: a finite      *)
(* value x is the integer x * Scale; NaN and the two infinities are kept   *)
(* apart, because getPosition divides by width - 1, which is 0 for         *)
(* pointsLength < 4.  A Buffer is a sequence of bytes (0..255).            *)
(***************************************************************************)
EXTENDS Integers, Sequences, FiniteSets, TLC

VARIABLES
    rng,          \* state of the process-wide generator behind CesiumMath.nextRandomNumber
    simplex,      \* the module-level SimplexNoise object (its permutation), built at load
    dracoHeader,  \* the compressor build: bytes it emits before any attribute data
    debugChecks,  \* whether the Cesium build loaded keeps its debug-only argument checks
    pc,           \* "idle", "running", "returned" (the caller holds a value object) or "thrown"
    options,      \* the options of the call
    result,       \* what the call returned (or the error it threw)
    encoderLog,   \* the compressor invocations of the call, in order
    entry,        \* the generator state an observed call found on entry, -1 before any
    ref,          \* a remembered earlier call: its options, its entry and the two binaries
    idArray,      \* the array handed to getBatchIds when it is studied on its own
    idProperty,   \* what getBatchIds made of it
    args,         \* the arguments of another function studied on its own
    returned      \* what that function returned

vars == <<rng, simplex, dracoHeader, debugChecks, pc, options, result, encoderLog, entry, ref,
          idArray, idProperty, args, returned>>

None == [none |-> TRUE]
\* what an option that selects no function leaves behind
Undefined == "undefined"

\* ------------------------------------------------------------------ bounds
MaxPoints == 3
MaxDracoHeader == 1
MaxSemantics == 2
MaxRepeatedPoints == 2
MaxIds == 3
MaxLattice == 16
MaxBuildings == 258

\* ------------------------------------------------------- program constants
sizeOfUint8 == 1
sizeOfUint16 == 2
sizeOfUint32 == 4
sizeOfFloat32 == 4

\* -------------------------------------------------------------- numbers
Scale == 2^8

Fin(v) == [nan |-> FALSE, inf |-> 0, v |-> v]
NaN == [nan |-> TRUE, inf |-> 0, v |-> 0]
Inf(s) == [nan |-> FALSE, inf |-> s, v |-> 0]
Num(n) == Fin(n * Scale)

IsFinite(a) == ~a.nan /\ a.inf = 0
Sign(v) == IF v > 0 THEN 1 ELSE IF v < 0 THEN -1 ELSE 0
Abs(v) == IF v < 0 THEN -v ELSE v

\* truncating division (rounds toward zero), as a float division rounded to the grid
QuotT(a, b) == Sign(a) * Sign(b) * (Abs(a) \div Abs(b))

FNeg(a) == IF a.nan THEN NaN ELSE IF a.inf # 0 THEN Inf(-a.inf) ELSE Fin(-a.v)

FAdd(a, b) ==
    IF a.nan \/ b.nan THEN NaN
    ELSE IF a.inf # 0 /\ b.inf # 0 THEN (IF a.inf = b.inf THEN a ELSE NaN)
    ELSE IF a.inf # 0 THEN a
    ELSE IF b.inf # 0 THEN b
    ELSE Fin(a.v + b.v)

FSub(a, b) == FAdd(a, FNeg(b))

FMul(a, b) ==
    IF a.nan \/ b.nan THEN NaN
    ELSE IF a.inf # 0 \/ b.inf # 0
         THEN LET sa == IF a.inf # 0 THEN a.inf ELSE Sign(a.v)
                  sb == IF b.inf # 0 THEN b.inf ELSE Sign(b.v)
              IN IF sa * sb = 0 THEN NaN ELSE Inf(sa * sb)
    ELSE Fin(QuotT(a.v * b.v, Scale))

FDiv(a, b) ==
    IF a.nan \/ b.nan THEN NaN
    ELSE IF a.inf # 0 THEN (IF b.inf # 0 THEN NaN ELSE Inf(a.inf * (IF b.v < 0 THEN -1 ELSE 1)))
    ELSE IF b.inf # 0 THEN Fin(0)
    ELSE IF b.v = 0 THEN (IF a.v = 0 THEN NaN ELSE Inf(Sign(a.v)))
    ELSE Fin(QuotT(a.v * Scale, b.v))

\* Math.floor
FFloor(a) == IF IsFinite(a) THEN Fin((a.v \div Scale) * Scale) ELSE a

\* Math.abs
FAbs(a) == IF a.nan THEN NaN ELSE IF a.inf # 0 THEN Inf(1) ELSE Fin(Abs(a.v))

\* a > b and a < b as JavaScript compares numbers: false when either is NaN
FGt(a, b) ==
    /\ ~a.nan /\ ~b.nan
    /\ IF a.inf # 0 \/ b.inf # 0 THEN a.inf > b.inf ELSE a.v > b.v
FLt(a, b) == FGt(b, a)

RECURSIVE ISqrtIn(_, _, _)
\* the largest r in lo..hi with r * r <= n
ISqrtIn(n, lo, hi) ==
    IF lo >= hi THEN lo
    ELSE LET mid == (lo + hi + 1) \div 2
         IN IF mid * mid <= n THEN ISqrtIn(n, mid, hi) ELSE ISqrtIn(n, lo, mid - 1)
\* Math.sqrt on the grid
FSqrt(a) ==
    IF a.nan THEN NaN
    ELSE IF a.inf # 0 THEN (IF a.inf > 0 THEN a ELSE NaN)
    ELSE IF a.v < 0 THEN NaN
    ELSE Fin(ISqrtIn(a.v * Scale, 0, a.v + Scale))

\* ------------------------------------------------- the random number source
\* CesiumMath.nextRandomNumber is a seeded generator (a Mersenne twister in the
\* library); it is modelled by a full-period linear congruential generator on
\* RngModulus states.  A draw advances the state and returns state / RngModulus,
\* a number in [0, 1).
RngModulus == 2^3
setRandomNumberSeed(seed) == seed % RngModulus
RngStep(s) == (5 * s + 3) % RngModulus
RECURSIVE RngAfter(_, _)
\* the generator state after k draws from state s
RngAfter(s, k) == IF k = 0 THEN s ELSE RngAfter(RngStep(s), k - 1)
\* the value of draw number k (counted from 0) from state s
nextRandomNumber(s, k) == Fin((RngAfter(s, (k + 1) % RngModulus) * Scale) \div RngModulus)
\* the same draw as an integer in 0 .. RngModulus - 1
RandomIndex(s, k) == RngAfter(s, (k + 1) % RngModulus)

\* ------------------------------------------------------------ Cartesian3
Cartesian3(x, y, z) == [x |-> x, y |-> y, z |-> z]
ZERO == Cartesian3(Fin(0), Fin(0), Fin(0))

multiplyByScalar(c, s) == Cartesian3(FMul(c.x, s), FMul(c.y, s), FMul(c.z, s))
subtract(a, b) == Cartesian3(FSub(a.x, b.x), FSub(a.y, b.y), FSub(a.z, b.z))
add(a, b) == Cartesian3(FAdd(a.x, b.x), FAdd(a.y, b.y), FAdd(a.z, b.z))
magnitude(c) == FSqrt(FAdd(FAdd(FMul(c.x, c.x), FMul(c.y, c.y)), FMul(c.z, c.z)))
HasNaN(c) == c.x.nan \/ c.y.nan \/ c.z.nan
divideByScalar(c, m) == Cartesian3(FDiv(c.x, m), FDiv(c.y, m), FDiv(c.z, m))
\* Cartesian3.normalize without its debug-only check
normalize(c) == divideByScalar(c, magnitude(c))
\* the debug build throws DeveloperError when the normalized result holds a NaN
NormalizeThrows(normalized) == debugChecks /\ HasNaN(normalized)

\* Math.cos and Math.sin at multiples of pi / 8, times Scale
CosTable == <<256, 237, 181, 98, 0, -98, -181, -237, -256, -237, -181, -98, 0, 98, 181, 237>>
CosEighth(a) == Fin(CosTable[(a % 16) + 1])
SinEighth(a) == CosEighth(a - 4)

\* ---------------------------------------------------------------- Buffers
\* Buffer.concat of a sequence of equally long chunks
Flatten(chunks, w) ==
    [k \in 1..(Len(chunks) * w) |-> chunks[((k - 1) \div w) + 1][((k - 1) % w) + 1]]

\* Buffer.alloc(n): n zero bytes
Alloc(n) == [k \in 1..n |-> 0]

\* the bytes writeFloatLE stores, low byte first: the IEEE patterns of NaN and of the
\* infinities; for a finite value the magnitude of its grid value in the three low bytes
\* and its sign bit in the top bit of the fourth
FloatBytes(a) ==
    IF a.nan THEN <<0, 0, 192, 127>>
    ELSE IF a.inf > 0 THEN <<0, 0, 128, 127>>
    ELSE IF a.inf < 0 THEN <<0, 0, 128, 255>>
    ELSE LET u == Abs(a.v)
         IN <<u % 256, (u \div 256) % 256, (u \div 65536) % 256, IF a.v < 0 THEN 128 ELSE 0>>

\* Node's checkInt: writeUInt8 / writeUInt16LE / writeUInt32LE throw a RangeError when
\* value > max or value < min; NaN passes both comparisons
OutOfRange(a, max) == FGt(a, Num(max)) \/ FLt(a, Fin(0))

\* the integer an in-range value is stored as: the fraction is dropped, NaN stores 0
StoredInt(a) == IF a.nan THEN 0 ELSE a.v \div Scale

UInt8Bytes(a) == <<StoredInt(a) % 256>>
UInt16Bytes(a) == LET u == StoredInt(a) IN <<u % 256, (u \div 256) % 256>>
UInt32Bytes(a) ==
    LET u == StoredInt(a)
    IN <<u % 256, (u \div 256) % 256, (u \div 65536) % 256, (u \div 16777216) % 256>>

\* ----------------------------------------------------- the point source
Color(r, g, b, a) == [red |-> r, green |-> g, blue |-> b, alpha |-> a]
\* line 206: the CONSTANT_RGBA of the constant color mode
ConstantColor == <<255, 255, 0, 51>>

\* Math.round(Math.pow(pointsLength, 1/3))
Width(pointsLength) ==
    CHOOSE w \in 0..pointsLength :
        /\ (2 * w - 1) * (2 * w - 1) * (2 * w - 1) <= 8 * pointsLength
        /\ 8 * pointsLength < (2 * w + 1) * (2 * w + 1) * (2 * w + 1)

getPosition(i, pointsLength) ==
    LET width == Width(pointsLength)
        z == i \div (width * width)
        y == (i - z * width * width) \div width
        x == i - width * (y + width * z)
        half == Fin(Scale \div 2)
    IN Cartesian3(FSub(FDiv(Num(x), Num(width - 1)), half),
                  FSub(FDiv(Num(y), Num(width - 1)), half),
                  FSub(FDiv(Num(z), Num(width - 1)), half))

boxFunction(i, pointsLength, radius) == multiplyByScalar(getPosition(i, pointsLength), radius)

\* theta = r1 * 2 * PI and phi = r2 * PI - PI / 2, with r1 = j1 / 8 and r2 = j2 / 8 the
\* two draws: in units of PI / 8, theta = 2 * j1 and phi = j2 - 4
sphereFunction(j1, j2, radius) ==
    LET theta == 2 * j1
        phi == j2 - 4
    IN Cartesian3(FMul(FMul(radius, CosEighth(theta)), CosEighth(phi)),
                  FMul(radius, SinEighth(phi)),
                  FMul(FMul(radius, SinEighth(theta)), CosEighth(phi)))

\* Color.fromRandom(): red, green, blue and alpha are four draws, in this order
randomFunction(r, g, b, a) == Color(r, g, b, a)

gradientFunction(position) ==
    LET half == Fin(Scale \div 2)
    IN Color(FAdd(position.x, half), FAdd(position.y, half), FAdd(position.z, half), Num(1))

\* simplex.noise4D: a fixed function into [-1, 1] of the four coordinates and of the
\* permutation drawn when the module was loaded; it yields NaN off the finite numbers
noise4D(perm, x, y, z, w) ==
    IF IsFinite(x) /\ IsFinite(y) /\ IsFinite(z) /\ IsFinite(w)
    THEN Fin(((perm + 3 * x.v + 5 * y.v + 7 * z.v + 11 * w.v) % (2 * Scale + 1)) - Scale)
    ELSE NaN

getNoise(position, time) == FAbs(noise4D(simplex, position.x, position.y, position.z, time))

noiseFunction(position, time) ==
    LET noise == getNoise(position, time) IN Color(noise, noise, noise, noise)

\* the octant code with the x bit shifted by 3 instead of 2
getBatchIdWide(position) ==
    LET x == IF FGt(position.x, Fin(0)) THEN 0 ELSE 1
        y == IF FGt(position.y, Fin(0)) THEN 0 ELSE 1
        z == IF FGt(position.z, Fin(0)) THEN 0 ELSE 1
    IN 8 * x + 2 * y + z

getBatchId(position) ==
    LET x == IF FGt(position.x, Fin(0)) THEN 0 ELSE 1
        y == IF FGt(position.y, Fin(0)) THEN 0 ELSE 1
        z == IF FGt(position.z, Fin(0)) THEN 0 ELSE 1
    IN 4 * x + 2 * y + z

\* ------------------------------------------------------ attribute encoders
\* An encoder returns [threw, property]: threw when one of its writes is out of range.
Property(buffer, propertyName, componentType, type) ==
    [buffer |-> buffer, propertyName |-> propertyName, componentType |-> componentType, type |-> type]

Vec3FloatBuffer(vectors) ==
    Flatten([i \in 1..Len(vectors) |->
                FloatBytes(vectors[i].x) \o FloatBytes(vectors[i].y) \o FloatBytes(vectors[i].z)],
            3 * sizeOfFloat32)

getPositions(positions) ==
    [threw |-> FALSE,
     property |-> Property(Vec3FloatBuffer(positions), "POSITION", "FLOAT", "VEC3")]

\* (value - min) * range / scale, multiplied before it is divided
Rescale(value, min, range, scale) ==
    LET d == FSub(value, min)
    IN IF ~IsFinite(d) THEN FDiv(FMul(d, Num(1)), scale)
       ELSE LET num == d.v * range
                whole == num \div scale.v
                rest == num % scale.v
            IN Fin(whole * Scale + (rest * Scale) \div scale.v)

getPositionsQuantized(positions, radius) ==
    LET min == FNeg(radius)
        max == radius
        range == 2^16 - 1
        scale == FSub(max, min)
        q(c) == Rescale(c, min, range, scale)
        quantized == [i \in 1..Len(positions) |->
                         <<q(positions[i].x), q(positions[i].y), q(positions[i].z)>>]
    IN [threw |-> \E i \in 1..Len(positions) : \E c \in 1..3 : OutOfRange(quantized[i][c], 2^16 - 1),
        property |-> Property(Flatten([i \in 1..Len(positions) |->
                                          UInt16Bytes(quantized[i][1]) \o UInt16Bytes(quantized[i][2])
                                              \o UInt16Bytes(quantized[i][3])],
                                      3 * sizeOfUint16),
                              "POSITION_QUANTIZED", "UNSIGNED_SHORT", "VEC3")]

getNormals(normals) ==
    [threw |-> FALSE,
     property |-> Property(Vec3FloatBuffer(normals), "NORMAL", "FLOAT", "VEC3")]

\* CesiumMath.clamp(value, -1, 1); NaN passes through
Clamp1(a) == IF FLt(a, Num(-1)) THEN Num(-1) ELSE IF FGt(a, Num(1)) THEN Num(1) ELSE a
\* CesiumMath.toSNorm(value, 255) = Math.round((clamp(value, -1, 1) * 0.5 + 0.5) * 255)
toSNorm(a) ==
    LET half == Fin(Scale \div 2)
    IN FFloor(FAdd(FMul(FAdd(FMul(Clamp1(a), half), half), Num(255)), half))
signNotZero(a) == IF FLt(a, Fin(0)) THEN Num(-1) ELSE Num(1)
\* AttributeCompression.octEncode(vector, result)
octEncode(vector) ==
    LET sum == FAdd(FAdd(FAbs(vector.x), FAbs(vector.y)), FAbs(vector.z))
        x == FDiv(vector.x, sum)
        y == FDiv(vector.y, sum)
        fold == FLt(vector.z, Fin(0))
        fx == IF fold THEN FMul(FSub(Num(1), FAbs(y)), signNotZero(x)) ELSE x
        fy == IF fold THEN FMul(FSub(Num(1), FAbs(x)), signNotZero(y)) ELSE y
    IN [x |-> toSNorm(fx), y |-> toSNorm(fy)]

getNormalsOctEncoded(normals) ==
    LET encoded == [i \in 1..Len(normals) |-> octEncode(normals[i])]
    IN [threw |-> \E i \in 1..Len(normals) :
                      OutOfRange(encoded[i].x, 255) \/ OutOfRange(encoded[i].y, 255),
        property |-> Property(Flatten([i \in 1..Len(normals) |->
                                          UInt8Bytes(encoded[i].x) \o UInt8Bytes(encoded[i].y)],
                                      2 * sizeOfUint8),
                              "NORMAL_OCT16P", "UNSIGNED_BYTE", "VEC2")]

\* the largest value writeUInt32LE accepts is 2^32 - 1; batch ids here stay far below the
\* largest id the model can hold, which stands for it
MaxUint32 == 2^22 - 1

RECURSIVE MaxPlusOne(_, _, _)
\* the loop batchLength = Math.max(batchIds[i] + 1, batchLength)
MaxPlusOne(batchIds, i, batchLength) ==
    IF i > Len(batchIds) THEN batchLength
    ELSE MaxPlusOne(batchIds, i + 1,
                    IF batchIds[i] + 1 > batchLength THEN batchIds[i] + 1 ELSE batchLength)

ByteLimit == 256
ShortLimit == 65536

\* the thresholds compared with < instead of <=
getBatchIdsComponentTypeStrict(batchLength) ==
    IF batchLength < ByteLimit THEN "UNSIGNED_BYTE"
    ELSE IF batchLength < ShortLimit THEN "UNSIGNED_SHORT"
    ELSE "UNSIGNED_INT"

getBatchIdsComponentType(batchLength) ==
    IF batchLength <= ByteLimit THEN "UNSIGNED_BYTE"
    ELSE IF batchLength <= ShortLimit THEN "UNSIGNED_SHORT"
    ELSE "UNSIGNED_INT"

getBatchIds(batchIds) ==
    LET pointsLength == Len(batchIds)
        batchLength == MaxPlusOne(batchIds, 1, 0)
        componentType == getBatchIdsComponentType(batchLength)
        max == IF componentType = "UNSIGNED_BYTE" THEN 2^8 - 1
               ELSE IF componentType = "UNSIGNED_SHORT" THEN 2^16 - 1 ELSE MaxUint32
        size == IF componentType = "UNSIGNED_BYTE" THEN sizeOfUint8
                ELSE IF componentType = "UNSIGNED_SHORT" THEN sizeOfUint16 ELSE sizeOfUint32
        bytes(v) == IF componentType = "UNSIGNED_BYTE" THEN UInt8Bytes(Num(v))
                    ELSE IF componentType = "UNSIGNED_SHORT" THEN UInt16Bytes(Num(v))
                    ELSE UInt32Bytes(Num(v))
    IN [threw |-> \E i \in 1..pointsLength : OutOfRange(Num(batchIds[i]), max),
        property |-> [buffer |-> Flatten([i \in 1..pointsLength |-> bytes(batchIds[i])], size),
                      propertyName |-> "BATCH_ID",
                      componentType |-> componentType,
                      type |-> "SCALAR",
                      batchLength |-> batchLength]]

getColorsRGB(colors) ==
    LET ch(c) == FFloor(FMul(c, Num(255)))
        rgb == [i \in 1..Len(colors) |->
                   <<ch(colors[i].red), ch(colors[i].green), ch(colors[i].blue)>>]
    IN [threw |-> \E i \in 1..Len(colors) : \E c \in 1..3 : OutOfRange(rgb[i][c], 255),
        property |-> Property(Flatten([i \in 1..Len(colors) |->
                                          UInt8Bytes(rgb[i][1]) \o UInt8Bytes(rgb[i][2])
                                              \o UInt8Bytes(rgb[i][3])], 3),
                              "RGB", "UNSIGNED_BYTE", "VEC3")]

getColorsRGBA(colors) ==
    LET ch(c) == FFloor(FMul(c, Num(255)))
        rgba == [i \in 1..Len(colors) |->
                    <<ch(colors[i].red), ch(colors[i].green), ch(colors[i].blue),
                      FFloor(FMul(colors[i].alpha, Num(128)))>>]
    IN [threw |-> \E i \in 1..Len(colors) : \E c \in 1..4 : OutOfRange(rgba[i][c], 255),
        property |-> Property(Flatten([i \in 1..Len(colors) |->
                                          UInt8Bytes(rgba[i][1]) \o UInt8Bytes(rgba[i][2])
                                              \o UInt8Bytes(rgba[i][3]) \o UInt8Bytes(rgba[i][4])], 4),
                              "RGBA", "UNSIGNED_BYTE", "VEC4")]

\* (r << 11) + (g << 5) + b: << works on ToInt32 of its operand, which is 0 for NaN and
\* for the infinities
ToInt32(a) == IF IsFinite(a) THEN a.v \div Scale ELSE 0
packRGB565Shifted(r, g, b) == FAdd(Num(ToInt32(r) * 2^10 + ToInt32(g) * 2^5), b)
packRGB565(r, g, b) == FAdd(Num(ToInt32(r) * 2^11 + ToInt32(g) * 2^5), b)

getColorsRGB565(colors) ==
    LET packed == [i \in 1..Len(colors) |->
                      packRGB565(FFloor(FMul(colors[i].red, Num(31))),
                                 FFloor(FMul(colors[i].green, Num(63))),
                                 FFloor(FMul(colors[i].blue, Num(31))))]
    IN [threw |-> \E i \in 1..Len(colors) : OutOfRange(packed[i], 2^16 - 1),
        property |-> Property(Flatten([i \in 1..Len(colors) |-> UInt16Bytes(packed[i])], sizeOfUint16),
                              "RGB565", "UNSIGNED_SHORT", "SCALAR")]

\* ---------------------------------------------------------------- getPoints
\* The transform option is a translation by `center` (the only part of the matrix the
\* descriptor reads); its inverse transpose leaves direction vectors unchanged.
\* shape and color name the functions chosen from the options ("undefined" when none
\* was chosen); s0 is the generator state the call starts from.  Every point draws
\* first for its shape (sphere: 2) and then for its color (random: 4).
ShapeDraws(shape) == IF shape = "sphere" THEN 2 ELSE 0
ColorDraws(color) == IF color = "random" THEN 4 ELSE 0

\* lines 481-486: the normal of a local position, and whether its normalization throws
NormalOf(position, first) ==
    [normal |-> first, threw |-> (position # ZERO /\ NormalizeThrows(first))]
PointNormal(position) ==
    NormalOf(position, IF position = ZERO THEN Cartesian3(Num(1), Num(0), Num(0))
                       ELSE normalize(position))

\* lines 492-493: the normal after the second normalization
Renormalized(first, second) ==
    [normal |-> second, threwFirst |-> first.threw, threwSecond |-> NormalizeThrows(second)]

\* lines 479-503: one pass of the loop, from the unit position and the local position;
\* random is the color drawn for the point when the color function is the random one
PointFrom(unitPosition, position, normal, color, random, center, relative, time) ==
    [position |-> IF relative THEN subtract(add(position, center), center)
                  ELSE add(position, center),
     normal |-> normal.normal,
     threwFirst |-> normal.threwFirst,
     threwSecond |-> normal.threwSecond,
     batchId |-> getBatchId(position),
     color |-> IF color = "gradient" THEN gradientFunction(unitPosition)
               ELSE IF color = "noise" THEN noiseFunction(unitPosition, time)
               ELSE random,
     noise |-> getNoise(unitPosition, time)]

PointAt(unitPosition, position, first, color, random, center, relative, time) ==
    PointFrom(unitPosition, position, Renormalized(first, normalize(first.normal)), color, random,
              center, relative, time)

PointOf(unitPosition, position, color, random, center, relative, time) ==
    PointAt(unitPosition, position, PointNormal(position), color, random, center, relative, time)

\* d is the number of the point's first draw
Point(s0, d, i, pointsLength, radius, color, shape, center, relative, time) ==
    PointOf(getPosition(i, pointsLength),
            IF shape = "sphere"
            THEN sphereFunction(RandomIndex(s0, d), RandomIndex(s0, d + 1), radius)
            ELSE boxFunction(i, pointsLength, radius),
            color,
            IF color = "random"
            THEN randomFunction(nextRandomNumber(s0, d + ShapeDraws(shape)),
                                nextRandomNumber(s0, d + ShapeDraws(shape) + 1),
                                nextRandomNumber(s0, d + ShapeDraws(shape) + 2),
                                nextRandomNumber(s0, d + ShapeDraws(shape) + 3))
            ELSE ConstantColor,
            center, relative, time)

\* lines 506-517: the attributes, or the error of the first write that is out of range
PointAttributes(draws, positionAttribute, normalAttribute, batchIdAttribute, colorAttribute, hasColors, noiseValues) ==
    IF \/ positionAttribute.threw
       \/ normalAttribute.threw
       \/ batchIdAttribute.threw
       \/ (hasColors /\ colorAttribute.threw)
    THEN [threw |-> TRUE, error |-> "RangeError", draws |-> draws]
    ELSE [threw |-> FALSE,
          draws |-> draws,
          positions |-> positionAttribute.property,
          normals |-> normalAttribute.property,
          batchIds |-> batchIdAttribute.property,
          hasColors |-> hasColors,
          colors |-> IF hasColors THEN colorAttribute.property ELSE None,
          noiseValues |-> noiseValues]

\* the loop ran to its end: lines 506-509
EncodePoints(points, draws, radius, colorMode, quantizePositions, octEncodeNormals) ==
    PointAttributes(draws,
                    IF quantizePositions
                    THEN getPositionsQuantized([i \in 1..Len(points) |-> points[i].position], radius)
                    ELSE getPositions([i \in 1..Len(points) |-> points[i].position]),
                    IF octEncodeNormals
                    THEN getNormalsOctEncoded([i \in 1..Len(points) |-> points[i].normal])
                    ELSE getNormals([i \in 1..Len(points) |-> points[i].normal]),
                    getBatchIds([i \in 1..Len(points) |-> points[i].batchId]),
                    IF colorMode = "rgb"
                    THEN getColorsRGB([i \in 1..Len(points) |-> points[i].color])
                    ELSE IF colorMode = "rgba"
                    THEN getColorsRGBA([i \in 1..Len(points) |-> points[i].color])
                    ELSE getColorsRGB565([i \in 1..Len(points) |-> points[i].color]),
                    colorMode \in {"rgb", "rgba", "rgb565"},
                    [i \in 1..Len(points) |-> points[i].noise])

\* the loop of lines 478-504 over the points computed for it: it stops at the first
\* call of a function that was never chosen, or at the first normalization that throws
PointsLoop(points, stride, radius, colorMode, color, shape, quantizePositions, octEncodeNormals) ==
    LET pointsLength == Len(points)
        bad == {i \in 1..pointsLength : points[i].threwFirst \/ points[i].threwSecond}
        firstBad == IF bad = {} THEN 0 ELSE CHOOSE i \in bad : \A j \in bad : i <= j
    IN IF pointsLength > 0 /\ shape = Undefined
       THEN [threw |-> TRUE, error |-> "TypeError", draws |-> 0]
       ELSE IF pointsLength > 0 /\ points[1].threwFirst
       THEN [threw |-> TRUE, error |-> "DeveloperError", draws |-> ShapeDraws(shape)]
       ELSE IF pointsLength > 0 /\ color = Undefined
       THEN [threw |-> TRUE, error |-> "TypeError", draws |-> ShapeDraws(shape)]
       ELSE IF firstBad > 0
       THEN [threw |-> TRUE, error |-> "DeveloperError",
             draws |-> IF points[firstBad].threwFirst
                       THEN (firstBad - 1) * stride + ShapeDraws(shape)
                       ELSE firstBad * stride]
       ELSE EncodePoints(points, pointsLength * stride, radius, colorMode, quantizePositions,
                         octEncodeNormals)

getPoints(s0, pointsLength, radius, colorMode, color, shape, quantizePositions, octEncodeNormals, relativeToCenter, center, time) ==
    PointsLoop([i \in 1..pointsLength |->
                   Point(s0, (i - 1) * (ShapeDraws(shape) + ColorDraws(color)), i - 1, pointsLength,
                         radius, color, shape, center, relativeToCenter \/ quantizePositions, time)],
               ShapeDraws(shape) + ColorDraws(color), radius, colorMode, color, shape,
               quantizePositions, octEncodeNormals)

getPerPointBatchTableProperties(s0, draws, pointsLength, noiseValues) ==
    <<Property(Flatten([i \in 1..pointsLength |-> FloatBytes(noiseValues[i])], sizeOfFloat32),
               "temperature", "FLOAT", "SCALAR"),
      Property(Flatten([i \in 1..pointsLength |->
                           FloatBytes(nextRandomNumber(s0, draws + i - 1)) \o FloatBytes(Num(0))
                               \o FloatBytes(Num(0))], 3 * sizeOfFloat32),
               "secondaryColor", "FLOAT", "VEC3"),
      Property(Flatten([i \in 1..pointsLength |-> UInt16Bytes(Num(i - 1))], sizeOfUint16),
               "id", "UNSIGNED_SHORT", "SCALAR")>>

\* ------------------------------------------------------------- JSON objects
\* A JSON object is a function from its keys; obj[key] = value adds or overwrites.
EmptyObject == [k \in {} |-> None]
Put(obj, key, value) == [k \in (DOMAIN obj) \cup {key} |-> IF k = key THEN value ELSE obj[k]]
Has(obj, key) == key \in DOMAIN obj

\* ------------------------------------------------------ draco compression
DracoExtension == "3DTILES_draco_point_compression"

numberOfComponentsForType(type) ==
    CASE type = "SCALAR" -> 1
      [] type = "VEC2" -> 2
      [] type = "VEC3" -> 3
      [] type = "VEC4" -> 4

\* properties.find(element => element.propertyName === name), None for undefined
getPropertyByName(properties, name) ==
    LET hits == {i \in 1..Len(properties) : properties[i].propertyName = name}
    IN IF hits = {} THEN None ELSE properties[CHOOSE i \in hits : \A j \in hits : i <= j]

Names(properties) == {properties[i].propertyName : i \in 1..Len(properties)}

RECURSIVE SumBytes(_, _, _)
\* the sum of buffer[lo..hi], by halves
SumBytes(buffer, lo, hi) ==
    IF lo > hi THEN 0
    ELSE IF lo = hi THEN buffer[lo]
    ELSE LET mid == (lo + hi) \div 2
         IN SumBytes(buffer, lo, mid) + SumBytes(buffer, mid + 1, hi)
RECURSIVE SumProperties(_, _)
SumProperties(properties, i) ==
    IF i > Len(properties) THEN 0
    ELSE (SumBytes(properties[i].buffer, 1, Len(properties[i].buffer))
             + 31 * SumProperties(properties, i + 1)) % 65536
RECURSIVE SumComponents(_, _)
SumComponents(properties, i) ==
    IF i > Len(properties) THEN 0
    ELSE numberOfComponentsForType(properties[i].type) + SumComponents(properties, i + 1)

\* encoder.EncodePointCloudToDracoBuffer: the compressor is a fixed function of the point
\* cloud it is given.  This build writes dracoHeader bytes and then one byte for every
\* component of every point; the bytes depend on the attribute data and on the encoding
\* method.  A length <= 0 reports failure.
EncodePointCloudToDracoBuffer(pointsLength, properties, preserveOrder) ==
    LET encodedLength == dracoHeader + pointsLength * SumComponents(properties, 1)
        digest == SumProperties(properties, 1) + (IF preserveOrder THEN 1 ELSE 0)
    IN [encodedLength |-> encodedLength,
        data |-> [k \in 1..encodedLength |-> (digest + 7 * k) % 256]]

\* the answer taken without the check of line 325
EncodedPropertiesUnchecked(encoded, properties, preserveOrder) ==
    [threw |-> FALSE,
     buffer |-> encoded.data,
     attributeIds |-> [name \in Names(properties) |->
                          (CHOOSE i \in 1..Len(properties) :
                              /\ properties[i].propertyName = name
                              /\ \A j \in 1..Len(properties) :
                                     properties[j].propertyName = name => j <= i) - 1],
     log |-> <<[attributes |-> [i \in 1..Len(properties) |-> properties[i].propertyName],
                preserveOrder |-> preserveOrder,
                encodedLength |-> encoded.encodedLength]>>]

\* lines 325-339: what dracoEncodeProperties makes of the compressor's answer
EncodedProperties(encoded, properties, preserveOrder) ==
    IF encoded.encodedLength <= 0
    THEN [threw |-> TRUE,
          error |-> "Error: Encoding Failed.",
          log |-> <<[attributes |-> [i \in 1..Len(properties) |-> properties[i].propertyName],
                     preserveOrder |-> preserveOrder,
                     encodedLength |-> encoded.encodedLength]>>]
    ELSE [threw |-> FALSE,
          buffer |-> encoded.data,
          \* AddXAttribute returns the index of the attribute added; a repeated name keeps
          \* the id of its last addition
          attributeIds |-> [name \in Names(properties) |->
                               (CHOOSE i \in 1..Len(properties) :
                                   /\ properties[i].propertyName = name
                                   /\ \A j \in 1..Len(properties) :
                                          properties[j].propertyName = name => j <= i) - 1],
          log |-> <<[attributes |-> [i \in 1..Len(properties) |-> properties[i].propertyName],
                     preserveOrder |-> preserveOrder,
                     encodedLength |-> encoded.encodedLength]>>]

\* returns [threw, buffer, attributeIds, log]; log lists the compressor invocations
dracoEncodeProperties(pointsLength, properties, preserveOrder) ==
    EncodedProperties(EncodePointCloudToDracoBuffer(pointsLength, properties, preserveOrder),
                      properties, preserveOrder)

hasUncompressedAttributes(dracoProperties, featureTableProperties, batchTableProperties) ==
    Len(dracoProperties) < Len(featureTableProperties) + Len(batchTableProperties)

\* the selection that ignores dracoSemantics and compresses every feature table property
SelectedPropertiesAll(dracoSemantics, featureTableProperties) == featureTableProperties

\* lines 352-367: the feature table properties handed to the compressor; dracoSemantics
\* is [defined, names], and a name that matches nothing selects undefined (None)
SelectedProperties(dracoSemantics, featureTableProperties) ==
    IF ~dracoSemantics.defined THEN featureTableProperties
    ELSE [i \in 1..Len(dracoSemantics.names) |->
             getPropertyByName(featureTableProperties, dracoSemantics.names[i])]

\* lines 369-372
PreserveOrder(dracoProperties, featureTableProperties, batchTableProperties) ==
    \/ getPropertyByName(dracoProperties, "NORMAL") # None
    \/ hasUncompressedAttributes(dracoProperties, featureTableProperties, batchTableProperties)

\* lines 376-399: the two extension objects
DracoJson(dracoResults, featureTableProperties, batchTableProperties) ==
    IF dracoResults.threw THEN dracoResults
    ELSE [threw |-> FALSE,
          log |-> dracoResults.log,
          buffer |-> dracoResults.buffer,
          dracoFeatureTableJson |->
              [properties |-> [name \in (DOMAIN dracoResults.attributeIds)
                                        \cap Names(featureTableProperties) |->
                                  dracoResults.attributeIds[name]],
               byteOffset |-> 0,
               byteLength |-> Len(dracoResults.buffer)],
          dracoBatchTableJson |->
              [properties |-> [name \in (DOMAIN dracoResults.attributeIds)
                                        \cap Names(batchTableProperties) |->
                                  dracoResults.attributeIds[name]]]]

\* lines 369-399 for the properties chosen; reading propertyName of an undefined element
\* throws before the compressor is reached
EncodeSelected(pointsLength, dracoProperties, featureTableProperties, batchTableProperties) ==
    IF \E i \in 1..Len(dracoProperties) : dracoProperties[i] = None
    THEN [threw |-> TRUE, error |-> "TypeError", log |-> <<>>]
    ELSE DracoJson(dracoEncodeProperties(pointsLength, dracoProperties,
                                         PreserveOrder(dracoProperties, featureTableProperties,
                                                       batchTableProperties)),
                   featureTableProperties, batchTableProperties)

dracoEncode(pointsLength, dracoSemantics, featureTableProperties, batchTableProperties) ==
    EncodeSelected(pointsLength,
                   SelectedProperties(dracoSemantics, featureTableProperties) \o batchTableProperties,
                   featureTableProperties, batchTableProperties)

\* ------------------------------------------------------ buffer assembly
\* ComponentDatatype.getSizeInBytes(ComponentDatatype[componentType])
getSizeInBytes(componentType) ==
    CASE componentType = "UNSIGNED_BYTE" -> sizeOfUint8
      [] componentType = "UNSIGNED_SHORT" -> sizeOfUint16
      [] componentType = "UNSIGNED_INT" -> sizeOfUint32
      [] componentType = "FLOAT" -> sizeOfFloat32

\* the offset without the rounding up: the attribute starts where the section ends
AlignedOffsetUnpadded(length, byteAlignment) == length

\* Math.ceil(length / byteAlignment) * byteAlignment
AlignedOffset(length, byteAlignment) ==
    ((length + byteAlignment - 1) \div byteAlignment) * byteAlignment

\* the test of lines 176 and 192 that never finds a name in the compression result
IsCompressedNever(dracoJson, name) == FALSE
IsCompressed(dracoJson, name) == dracoJson # None /\ Has(dracoJson.properties, name)

\* the pass without the Buffer.alloc(padding) of line 180: the offset is recorded, the
\* zero bytes before the attribute are not written
AppendFeatureTablePropertyUnpadded(table, property, dracoFeatureTableJson) ==
    [json |-> Put(table.json, property.propertyName,
                  [byteOffset |-> IF IsCompressed(dracoFeatureTableJson, property.propertyName)
                                  THEN 0
                                  ELSE AlignedOffset(Len(table.binary),
                                                     getSizeInBytes(property.componentType)),
                   componentType |-> IF property.propertyName = "BATCH_ID"
                                     THEN property.componentType ELSE Undefined]),
     binary |-> IF IsCompressed(dracoFeatureTableJson, property.propertyName) THEN table.binary
                ELSE table.binary \o property.buffer]

\* one pass of the loop over featureTableProperties; table is [json, binary]
AppendFeatureTableProperty(table, property, dracoFeatureTableJson) ==
    LET name == property.propertyName
        componentType == property.componentType
        raw == ~IsCompressed(dracoFeatureTableJson, name)
        byteAlignment == getSizeInBytes(componentType)
        byteOffset == IF raw THEN AlignedOffset(Len(table.binary), byteAlignment) ELSE 0
        padding == Alloc(byteOffset - Len(table.binary))
    IN [json |-> Put(table.json, name,
                     [byteOffset |-> byteOffset,
                      componentType |-> IF name = "BATCH_ID" THEN componentType ELSE Undefined]),
        binary |-> IF raw THEN table.binary \o padding \o property.buffer ELSE table.binary]

\* one pass of the loop over batchTableProperties
AppendBatchTableProperty(table, property, dracoBatchTableJson) ==
    LET name == property.propertyName
        componentType == property.componentType
        raw == ~IsCompressed(dracoBatchTableJson, name)
        byteAlignment == getSizeInBytes(componentType)
        byteOffset == IF raw THEN AlignedOffset(Len(table.binary), byteAlignment) ELSE 0
        padding == Alloc(byteOffset - Len(table.binary))
    IN [json |-> Put(table.json, name,
                     [byteOffset |-> byteOffset,
                      componentType |-> componentType,
                      type |-> property.type]),
        binary |-> IF raw THEN table.binary \o padding \o property.buffer ELSE table.binary]

RECURSIVE FeatureTable(_, _, _, _)
FeatureTable(table, properties, i, dracoFeatureTableJson) ==
    IF i > Len(properties) THEN table
    ELSE FeatureTable(AppendFeatureTableProperty(table, properties[i], dracoFeatureTableJson),
                      properties, i + 1, dracoFeatureTableJson)

RECURSIVE BatchTable(_, _, _, _)
BatchTable(table, properties, i, dracoBatchTableJson) ==
    IF i > Len(properties) THEN table
    ELSE BatchTable(AppendBatchTableProperty(table, properties[i], dracoBatchTableJson),
                    properties, i + 1, dracoBatchTableJson)

\* the per-batch table: a name, three random dimensions and an id for every batch
getBatchTableForBatchedPoints(s0, draws, batchLength) ==
    LET dimensionsBuffer ==
            Flatten([i \in 1..batchLength |->
                        FloatBytes(nextRandomNumber(s0, draws + 3 * (i - 1)))
                            \o FloatBytes(nextRandomNumber(s0, draws + 3 * (i - 1) + 1))
                            \o FloatBytes(nextRandomNumber(s0, draws + 3 * (i - 1) + 2))],
                    3 * sizeOfFloat32)
        idBuffer == Flatten([i \in 1..batchLength |-> UInt32Bytes(Num(i - 1))], sizeOfUint32)
    IN [json |-> [name |-> [i \in 1..batchLength |-> <<"section", i - 1>>],
                  dimensions |-> [byteOffset |-> 0, componentType |-> "FLOAT", type |-> "VEC3"],
                  id |-> [byteOffset |-> Len(dimensionsBuffer),
                          componentType |-> "UNSIGNED_INT",
                          type |-> "SCALAR"]],
        binary |-> dimensionsBuffer \o idBuffer]

\* createPnts wraps the four sections in the tile container; the container header is
\* outside this model, so the tile is kept as the sections it was given
createPnts(featureTableJson, featureTableBinary, batchTableJson, batchTableBinary) ==
    [featureTableJson |-> featureTableJson,
     featureTableBinary |-> featureTableBinary,
     batchTableJson |-> batchTableJson,
     batchTableBinary |-> batchTableBinary]

\* -------------------------------------------------- createPointCloudTile
\* a call that does not re-seed: the generator goes on from where the last call left it
SeedAtCallKept(current) == current

\* line 54: the generator is re-seeded at the start of every call
SeedAtCall(current) == setRandomNumberSeed(0)

\* oct-encoding as asked for, without the `&& !draco` of line 66
OctEncodeNormalsAsked(opts) == opts.octEncodeNormals
OctEncodeNormals(opts) == opts.octEncodeNormals /\ ~opts.draco
\* quantization never in effect
QuantizePositionsNever(opts) == FALSE
QuantizePositions(opts) == opts.quantizePositions /\ ~opts.draco
\* the color mode as given, without lines 73-75
ColorModeKept(opts) == opts.colorMode
ColorMode(opts) == IF opts.colorMode = "rgb565" /\ opts.draco THEN "rgb" ELSE opts.colorMode
\* a shape selection that falls back to the box for a value it does not know
ShapeFunctionDefaulted(opts) == IF opts.shape = "sphere" THEN "sphere" ELSE "box"
ShapeFunction(opts) == IF opts.shape \in {"sphere", "box"} THEN opts.shape ELSE Undefined
ColorFunction(opts) == IF opts.color \in {"random", "gradient", "noise"} THEN opts.color ELSE Undefined

\* the scalar fields with `if (relativeToCenter)` in place of `else if (relativeToCenter)`
DescriptorFieldsBoth(json, opts, radius) ==
    LET withLength == Put(json, "POINTS_LENGTH", opts.pointsLength)
        withColor == IF ColorMode(opts) = "constant"
                     THEN Put(withLength, "CONSTANT_RGBA", ConstantColor) ELSE withLength
        withVolume ==
            IF QuantizePositions(opts)
            THEN Put(Put(withColor, "QUANTIZED_VOLUME_SCALE",
                         <<opts.tileWidth, opts.tileWidth, opts.tileWidth>>),
                     "QUANTIZED_VOLUME_OFFSET",
                     <<FSub(opts.center.x, radius), FSub(opts.center.y, radius),
                       FSub(opts.center.z, radius)>>)
            ELSE withColor
    IN IF opts.relativeToCenter
       THEN Put(withVolume, "RTC_CENTER", <<opts.center.x, opts.center.y, opts.center.z>>)
       ELSE withVolume

\* lines 205-217: the scalar fields of the feature table descriptor
DescriptorFields(json, opts, radius) ==
    LET tileWidth == opts.tileWidth
        center == opts.center
        withLength == Put(json, "POINTS_LENGTH", opts.pointsLength)
        withColor == IF ColorMode(opts) = "constant"
                     THEN Put(withLength, "CONSTANT_RGBA", ConstantColor) ELSE withLength
    IN IF QuantizePositions(opts)
       THEN Put(Put(withColor, "QUANTIZED_VOLUME_SCALE", <<tileWidth, tileWidth, tileWidth>>),
                "QUANTIZED_VOLUME_OFFSET",
                <<FSub(center.x, radius), FSub(center.y, radius), FSub(center.z, radius)>>)
       ELSE IF opts.relativeToCenter
       THEN Put(withColor, "RTC_CENTER", <<center.x, center.y, center.z>>)
       ELSE withColor

Thrown(error, s0, draws, log) ==
    [rng |-> RngAfter(s0, draws % RngModulus),
     pc |-> "thrown",
     result |-> [status |-> "thrown", error |-> error],
     encoderLog |-> log]

\* a descriptor left without its extension object
WithExtensionOmitted(json, dracoJson) == json

\* lines 143-160: the compressed blob and the extension objects of the two descriptors
WithExtension(json, dracoJson) ==
    IF dracoJson # None THEN Put(json, "extensions", [e \in {DracoExtension} |-> dracoJson])
    ELSE json

\* what lines 143-148 see when compression is off
NotCompressed ==
    [threw |-> FALSE, log |-> <<>>, buffer |-> <<>>,
     dracoFeatureTableJson |-> None, dracoBatchTableJson |-> None]

\* lines 219-238: the batch table that is returned, and the value object
Returned(opts, s0, draws, featureTableJson, featureTableBinary, batchTable, log) ==
    [rng |-> RngAfter(s0, draws % RngModulus),
     pc |-> "returned",
     result |-> [status |-> "returned",
                 pnts |-> createPnts(featureTableJson, featureTableBinary,
                                     batchTable.json, batchTable.binary),
                 batchTableJson |-> batchTable.json,
                 extensionsUsed |-> IF opts.draco THEN [names |-> <<DracoExtension>>] ELSE None],
     encoderLog |-> log]

DescribedKeepingPerPoint(opts, s0, draws, batchLength, featureTable, perPointTable, log) ==
    Returned(opts, s0, draws,
             DescriptorFields(IF opts.batched
                              THEN Put(featureTable.json, "BATCH_LENGTH", batchLength)
                              ELSE featureTable.json, opts, FDiv(opts.tileWidth, Num(2))),
             featureTable.binary, perPointTable, log)

\* lines 205-224 over the two tables the loops have built; draws counts the numbers the
\* call has drawn so far
Described(opts, s0, draws, batchLength, featureTable, perPointTable, log) ==
    IF opts.batched
    THEN Returned(opts, s0, draws + 3 * batchLength,
                  Put(DescriptorFields(featureTable.json, opts, FDiv(opts.tileWidth, Num(2))),
                      "BATCH_LENGTH", batchLength),
                  featureTable.binary,
                  getBatchTableForBatchedPoints(s0, draws, batchLength), log)
    ELSE Returned(opts, s0, draws,
                  DescriptorFields(featureTable.json, opts, FDiv(opts.tileWidth, Num(2))),
                  featureTable.binary, perPointTable, log)

\* lines 143-203: the extension objects, the blob and the two append loops
Assembled(opts, s0, draws, batchLength, featureTableProperties, batchTableProperties, dracoResults) ==
    IF dracoResults.threw THEN Thrown(dracoResults.error, s0, draws, dracoResults.log)
    ELSE Described(opts, s0, draws, batchLength,
                   FeatureTable([json |-> WithExtension(EmptyObject,
                                                        dracoResults.dracoFeatureTableJson),
                                 binary |-> dracoResults.buffer],
                                featureTableProperties, 1, dracoResults.dracoFeatureTableJson),
                   BatchTable([json |-> WithExtension(EmptyObject,
                                                      dracoResults.dracoBatchTableJson),
                               binary |-> <<>>],
                              batchTableProperties, 1, dracoResults.dracoBatchTableJson),
                   dracoResults.log)

\* lines 143-148
Compressed(opts, s0, draws, batchLength, featureTableProperties, batchTableProperties) ==
    Assembled(opts, s0, draws, batchLength, featureTableProperties, batchTableProperties,
              IF opts.draco
              THEN dracoEncode(opts.pointsLength, opts.dracoSemantics, featureTableProperties,
                               batchTableProperties)
              ELSE NotCompressed)

\* lines 110-141 over the attributes getPoints returned
Collected(opts, s0, points) ==
    IF points.threw THEN Thrown(points.error, s0, points.draws, <<>>)
    ELSE Compressed(opts, s0,
                    points.draws + (IF opts.perPointProperties THEN opts.pointsLength ELSE 0),
                    points.batchIds.batchLength,
                    <<points.positions>>
                        \o (IF points.hasColors THEN <<points.colors>> ELSE <<>>)
                        \o (IF opts.generateNormals THEN <<points.normals>> ELSE <<>>)
                        \o (IF opts.batched THEN <<points.batchIds>> ELSE <<>>),
                    IF opts.perPointProperties
                    THEN getPerPointBatchTableProperties(s0, points.draws, opts.pointsLength,
                                                         points.noiseValues)
                    ELSE <<>>)

\* lines 56-238, from the generator state s0 that line 54 left: [rng, pc, result, encoderLog]
createPointCloudTile(opts, s0) ==
    Collected(opts, s0,
              getPoints(s0, opts.pointsLength, FDiv(opts.tileWidth, Num(2)), ColorMode(opts),
                        ColorFunction(opts), ShapeFunction(opts), QuantizePositions(opts),
                        OctEncodeNormals(opts), opts.relativeToCenter, opts.center, opts.time))

\* ------------------------------------------------------------ the inputs
NoSemantics == [defined |-> FALSE, names |-> <<>>]
SemanticNames == {"POSITION", "RGB", "NORMAL"}
SemanticLists == UNION {[1..n -> SemanticNames] : n \in 0..MaxSemantics}
Translated == Cartesian3(Num(100), Num(0), Num(-20))

Defaults ==
    [tileWidth |-> Num(10), center |-> ZERO, pointsLength |-> MaxPoints,
     colorMode |-> "rgb", color |-> "noise", shape |-> "sphere",
     generateNormals |-> FALSE, draco |-> FALSE, dracoSemantics |-> NoSemantics,
     octEncodeNormals |-> FALSE, quantizePositions |-> FALSE, batched |-> FALSE,
     perPointProperties |-> FALSE, relativeToCenter |-> TRUE, time |-> Fin(0)]

\* which attributes exist and how each is encoded, without compression
LayoutOptions ==
    {[Defaults EXCEPT !.pointsLength = n, !.colorMode = m, !.generateNormals = g,
                      !.octEncodeNormals = o, !.quantizePositions = q, !.batched = b] :
        n \in {1, MaxPoints}, m \in {"rgb", "rgba", "rgb565", "constant", "none"},
        g \in BOOLEAN, o \in BOOLEAN, q \in BOOLEAN, b \in BOOLEAN}

\* what is compressed, and what the batch table holds
DracoOptions ==
    {[Defaults EXCEPT !.draco = TRUE, !.dracoSemantics = d, !.colorMode = m,
                      !.generateNormals = g, !.batched = b, !.perPointProperties = p] :
        d \in {NoSemantics} \cup {[defined |-> TRUE, names |-> l] : l \in SemanticLists},
        m \in {"rgb", "rgb565"}, g \in BOOLEAN, b \in BOOLEAN, p \in BOOLEAN}

\* the descriptor's scalar fields, and the options compression overrides
DescriptorOptions ==
    {[Defaults EXCEPT !.draco = d, !.quantizePositions = q, !.relativeToCenter = r,
                      !.octEncodeNormals = o, !.generateNormals = o, !.center = c,
                      !.perPointProperties = p, !.pointsLength = n] :
        d \in BOOLEAN, q \in BOOLEAN, r \in BOOLEAN, o \in BOOLEAN, c \in {ZERO, Translated},
        p \in BOOLEAN, n \in {0, MaxPoints}}

\* where the values come from: the shapes and the color strategies
SourceOptions ==
    {[Defaults EXCEPT !.pointsLength = n, !.shape = sh, !.color = c, !.colorMode = m,
                      !.batched = b, !.perPointProperties = p] :
        n \in {1, MaxPoints, 8}, sh \in {"sphere", "box"}, c \in {"random", "gradient", "noise"},
        m \in {"rgb", "rgba"}, b \in BOOLEAN, p \in BOOLEAN}

\* every color mode, with and without compression
ColorModeOptions ==
    {[Defaults EXCEPT !.draco = d, !.colorMode = m, !.pointsLength = n, !.color = "random"] :
        d \in BOOLEAN, m \in {"rgb", "rgba", "rgb565", "constant", "none"}, n \in {1, MaxPoints}}

\* gradient colors over the box lattice, for point counts off the cubes
GradientBoxOptions ==
    {[Defaults EXCEPT !.pointsLength = n, !.shape = "box", !.color = "gradient", !.colorMode = m] :
        n \in {2, 12}, m \in {"rgb", "rgba", "rgb565"}}

\* batched tiles of both shapes, the empty tile included
BatchedOptions ==
    {[Defaults EXCEPT !.pointsLength = n, !.shape = sh, !.color = "random", !.batched = TRUE] :
        n \in {0, 1, MaxPoints}, sh \in {"sphere", "box"}}

\* values of shape, color and colorMode that lines 80-105 do not know
UnrecognizedOptions ==
    {[Defaults EXCEPT !.pointsLength = n, !.shape = sh, !.color = c, !.colorMode = m] :
        n \in {0, 1, MaxPoints}, sh \in {"sphere", "box", "cone"}, c \in {"noise", "plasma"},
        m \in {"rgb", "hsv"}}

Options ==
    LayoutOptions \cup DracoOptions \cup DescriptorOptions \cup SourceOptions
        \cup UnrecognizedOptions \cup ColorModeOptions \cup GradientBoxOptions
        \cup BatchedOptions

\* calls that draw random numbers in different amounts, for the comparison of repeated calls
RepeatedOptions ==
    {[Defaults EXCEPT !.pointsLength = n, !.color = "random", !.batched = b,
                      !.perPointProperties = p] :
        n \in {1, MaxRepeatedPoints}, b \in BOOLEAN, p \in BOOLEAN}

\* batch ids on both sides of the two width thresholds
SampleBatchIds == {0, 7, ByteLimit - 2, ByteLimit - 1, ByteLimit, ShortLimit - 2, ShortLimit - 1, ShortLimit}
BatchIdArrays == UNION {[1..n -> SampleBatchIds] : n \in 0..MaxIds}

\* ------------------------------------------------------- the state machine
\* lines 25-26: loading the module seeds the generator and builds the noise function from
\* it, which draws from the generator; both happen once
Init ==
    /\ rng = RngAfter(setRandomNumberSeed(0), 255 % RngModulus)
    /\ simplex = 11 + 37 * RandomIndex(setRandomNumberSeed(0), 0)
    /\ dracoHeader \in 0..MaxDracoHeader
    /\ debugChecks \in BOOLEAN
    /\ pc = "idle"
    /\ options = None
    /\ result = None
    /\ encoderLog = <<>>
    /\ entry = -1
    /\ ref = None
    /\ idArray = <<>>
    /\ idProperty = None
    /\ args = None
    /\ returned = None

\* createPointCloudTile(opts) is entered: line 54 re-seeds the generator
Enter(opts) ==
    /\ pc = "idle"
    /\ pc' = "running"
    /\ options' = opts
    /\ rng' = SeedAtCall(rng)
    /\ UNCHANGED <<simplex, dracoHeader, debugChecks, result, encoderLog, ref, idArray,
                   idProperty, args, returned>>

Begin(opts) == Enter(opts) /\ UNCHANGED entry

\* the same entry, with the generator state the call found noted beside it
BeginObserved(opts) == Enter(opts) /\ entry' = rng

\* the rest of the call, to its return or to the error it throws
Finish ==
    /\ pc = "running"
    /\ LET call == createPointCloudTile(options, rng)
       IN /\ rng' = call.rng
          /\ pc' = call.pc
          /\ result' = call.result
          /\ encoderLog' = call.encoderLog
    /\ UNCHANGED <<simplex, dracoHeader, debugChecks, options, entry, ref, idArray,
                   idProperty, args, returned>>

\* the caller is done with the value object (or the error); only the generator state stays
Consume ==
    /\ pc \in {"returned", "thrown"}
    /\ pc' = "idle"
    /\ options' = None
    /\ result' = None
    /\ encoderLog' = <<>>
    /\ UNCHANGED <<rng, simplex, dracoHeader, debugChecks, entry, ref, idArray, idProperty, args, returned>>

\* the caller keeps the two binaries of a returned call, to compare later calls with
Remember ==
    /\ pc = "returned"
    /\ ref = None
    /\ ref' = [options |-> options,
               entry |-> entry,
               featureTableBinary |-> result.pnts.featureTableBinary,
               batchTableBinary |-> result.pnts.batchTableBinary]
    /\ pc' = "idle"
    /\ options' = None
    /\ result' = None
    /\ encoderLog' = <<>>
    /\ UNCHANGED <<rng, simplex, dracoHeader, debugChecks, entry, idArray, idProperty, args, returned>>

Next ==
    \/ \E opts \in Options : Begin(opts)
    \/ Finish
    \/ Consume

Spec == Init /\ [][Next]_vars

\* repeated calls, some of them kept for comparison
NextRepeated ==
    \/ \E opts \in RepeatedOptions : BeginObserved(opts)
    \/ Finish
    \/ Consume
    \/ Remember

SpecRepeated == Init /\ [][NextRepeated]_vars

\* getBatchIds on its own, over arrays of batch ids
InitBatchIds ==
    /\ rng = RngAfter(setRandomNumberSeed(0), 255 % RngModulus)
    /\ simplex = 11 + 37 * RandomIndex(setRandomNumberSeed(0), 0)
    /\ dracoHeader = 0
    /\ debugChecks = FALSE
    /\ pc = "idle"
    /\ options = None
    /\ result = None
    /\ encoderLog = <<>>
    /\ entry = -1
    /\ ref = None
    /\ idArray \in BatchIdArrays
    /\ idProperty = None
    /\ args = None
    /\ returned = None

GetBatchIds ==
    /\ idProperty = None
    /\ idProperty' = getBatchIds(idArray)
    /\ UNCHANGED <<rng, simplex, dracoHeader, debugChecks, pc, options, result, encoderLog, entry,
                   ref, idArray, args, returned>>

NextBatchIds == GetBatchIds

SpecBatchIds == InitBatchIds /\ [][NextBatchIds]_vars

\* getColorsRGB565 on its own, over one-color arrays whose channels sit at every level
\* of the 5, 6 and 5 bit scales (lines 683-685)
RedMax == 31
GreenMax == 63
BlueMax == 31

\* the least channel value on the grid that Math.floor(value * max) takes to level
ChannelAt(level, max) == Fin((level * Scale + max - 1) \div max)

InitRGB565 ==
    /\ rng = RngAfter(setRandomNumberSeed(0), 255 % RngModulus)
    /\ simplex = 11 + 37 * RandomIndex(setRandomNumberSeed(0), 0)
    /\ dracoHeader = 0
    /\ debugChecks = FALSE
    /\ pc = "idle"
    /\ options = None
    /\ result = None
    /\ encoderLog = <<>>
    /\ entry = -1
    /\ ref = None
    /\ idArray = <<>>
    /\ idProperty = None
    /\ \E r \in 0..RedMax, g \in 0..GreenMax, b \in 0..BlueMax :
          args = [levels |-> <<r, g, b>>,
                  colors |-> <<Color(ChannelAt(r, RedMax), ChannelAt(g, GreenMax),
                                     ChannelAt(b, BlueMax), Num(1))>>]
    /\ returned = None

GetColorsRGB565 ==
    /\ returned = None
    /\ returned' = getColorsRGB565(args.colors)
    /\ UNCHANGED <<rng, simplex, dracoHeader, debugChecks, pc, options, result, encoderLog, entry,
                   ref, idArray, idProperty, args>>

NextRGB565 == GetColorsRGB565

SpecRGB565 == InitRGB565 /\ [][NextRGB565]_vars

\* getPosition on its own, over every index of every point count up to MaxLattice
InitPosition ==
    /\ rng = RngAfter(setRandomNumberSeed(0), 255 % RngModulus)
    /\ simplex = 11 + 37 * RandomIndex(setRandomNumberSeed(0), 0)
    /\ dracoHeader = 0
    /\ debugChecks = FALSE
    /\ pc = "idle"
    /\ options = None
    /\ result = None
    /\ encoderLog = <<>>
    /\ entry = -1
    /\ ref = None
    /\ idArray = <<>>
    /\ idProperty = None
    /\ \E n \in 1..MaxLattice : \E i \in 0..(n - 1) : args = [i |-> i, pointsLength |-> n]
    /\ returned = None

GetPosition ==
    /\ returned = None
    /\ returned' = getPosition(args.i, args.pointsLength)
    /\ UNCHANGED <<rng, simplex, dracoHeader, debugChecks, pc, options, result, encoderLog, entry,
                   ref, idArray, idProperty, args>>

NextPosition == GetPosition

SpecPosition == InitPosition /\ [][NextPosition]_vars

\* getColorsRGBA on its own, over one-color arrays with each channel at the ends and in
\* the middle of [0, 1]; alpha 1.0 is what gradientFunction (line 439) gives every color
ChannelValues == {Fin(0), Fin(Scale \div 2), Fin(Scale - 1), Fin(Scale)}

InitRGBA ==
    /\ rng = RngAfter(setRandomNumberSeed(0), 255 % RngModulus)
    /\ simplex = 11 + 37 * RandomIndex(setRandomNumberSeed(0), 0)
    /\ dracoHeader = 0
    /\ debugChecks = FALSE
    /\ pc = "idle"
    /\ options = None
    /\ result = None
    /\ encoderLog = <<>>
    /\ entry = -1
    /\ ref = None
    /\ idArray = <<>>
    /\ idProperty = None
    /\ \E r \in ChannelValues, g \in ChannelValues, b \in ChannelValues, a \in ChannelValues :
          args = [colors |-> <<Color(r, g, b, a)>>]
    /\ returned = None

GetColorsRGBA ==
    /\ returned = None
    /\ returned' = getColorsRGBA(args.colors)
    /\ UNCHANGED <<rng, simplex, dracoHeader, debugChecks, pc, options, result, encoderLog, entry,
                   ref, idArray, idProperty, args>>

NextRGBA == GetColorsRGBA

SpecRGBA == InitRGBA /\ [][NextRGBA]_vars

\* ------------------------------------------------- createBuildingsTile.js
sizeOfDouble == 8

\* the bytes writeDoubleLE stores, low byte first: the IEEE patterns of NaN and of the
\* infinities; for a finite value the magnitude of its grid value in the three low bytes
\* and its sign bit in the top bit of the eighth
DoubleBytes(a) ==
    IF a.nan THEN <<0, 0, 0, 0, 0, 0, 248, 127>>
    ELSE IF a.inf > 0 THEN <<0, 0, 0, 0, 0, 0, 240, 127>>
    ELSE IF a.inf < 0 THEN <<0, 0, 0, 0, 0, 0, 240, 255>>
    ELSE LET u == Abs(a.v)
         IN <<u % 256, (u \div 256) % 256, (u \div 65536) % 256, 0, 0, 0, 0,
              IF a.v < 0 THEN 128 ELSE 0>>

\* line 182: Math.max(i, 255)
BuildingCode(i) == IF i > 255 THEN i ELSE 255

\* lines 162-196; buildings[i + 1] is the building of index i. The first write out of the
\* range of a byte throws, and nothing is returned
generateBatchTableBinary(buildings) ==
    LET buildingsLength == Len(buildings)
        cartographicBuffer ==
            Flatten([k \in 1..buildingsLength |->
                        DoubleBytes(buildings[k].longitude) \o DoubleBytes(buildings[k].latitude)
                            \o DoubleBytes(buildings[k].height)], 3 * sizeOfDouble)
        codeBuffer == Flatten([k \in 1..buildingsLength |-> UInt8Bytes(Num(BuildingCode(k - 1)))],
                              sizeOfUint8)
    IN IF \E k \in 1..buildingsLength : OutOfRange(Num(BuildingCode(k - 1)), 2^8 - 1)
       THEN [threw |-> TRUE, error |-> "RangeError"]
       ELSE [threw |-> FALSE,
             json |-> [cartographic |-> [byteOffset |-> 0, componentType |-> "DOUBLE",
                                         type |-> "VEC3"],
                       code |-> [byteOffset |-> Len(cartographicBuffer),
                                 componentType |-> "UNSIGNED_BYTE", type |-> "SCALAR"]],
             binary |-> cartographicBuffer \o codeBuffer]

\* the buildings createBuildings hands over: a row of buildings east of `longitude`
Buildings(n, longitude, height) ==
    [k \in 1..n |-> [longitude |-> Fin(longitude + k - 1), latitude |-> Fin(-k), height |-> height]]

\* generateBatchTableBinary on its own, over rows of 0 to MaxBuildings buildings
InitBuildings ==
    /\ rng = RngAfter(setRandomNumberSeed(0), 255 % RngModulus)
    /\ simplex = 11 + 37 * RandomIndex(setRandomNumberSeed(0), 0)
    /\ dracoHeader = 0
    /\ debugChecks = FALSE
    /\ pc = "idle"
    /\ options = None
    /\ result = None
    /\ encoderLog = <<>>
    /\ entry = -1
    /\ ref = None
    /\ idArray = <<>>
    /\ idProperty = None
    /\ \E n \in 0..MaxBuildings, longitude \in {-Scale, 0}, height \in {Num(10), NaN} :
          args = [buildings |-> Buildings(n, longitude, height)]
    /\ returned = None

GenerateBatchTableBinary ==
    /\ returned = None
    /\ returned' = generateBatchTableBinary(args.buildings)
    /\ UNCHANGED <<rng, simplex, dracoHeader, debugChecks, pc, options, result, encoderLog, entry,
                   ref, idArray, idProperty, args>>

NextBuildings == GenerateBatchTableBinary

SpecBuildings == InitBuildings /\ [][NextBuildings]_vars

\* ------------------------------------------------------------ properties
\* The value object the caller holds, and the pnts layout its descriptors are read by:
\* the component size and the bytes per point of each feature table semantic.
FeatureTableJson == result.pnts.featureTableJson
FeatureTableBinary == result.pnts.featureTableBinary
BatchTableJson == result.batchTableJson
BatchTableBinary == result.pnts.batchTableBinary

GenerationOrder ==
    <<"POSITION", "POSITION_QUANTIZED", "RGB", "RGBA", "RGB565", "NORMAL", "NORMAL_OCT16P",
      "BATCH_ID">>
FeatureAttributes ==
    {GenerationOrder[i] : i \in 1..Len(GenerationOrder)} \cap DOMAIN FeatureTableJson

ComponentTypeSize(componentType) ==
    CASE componentType = "UNSIGNED_BYTE" -> 1
      [] componentType = "UNSIGNED_SHORT" -> 2
      [] componentType = "UNSIGNED_INT" -> 4
      [] componentType = "FLOAT" -> 4

SizeOfFeature(name) ==
    CASE name = "BATCH_ID" -> ComponentTypeSize(FeatureTableJson[name].componentType)
      [] name \in {"POSITION", "NORMAL"} -> 4
      [] name \in {"POSITION_QUANTIZED", "RGB565"} -> 2
      [] name \in {"RGB", "RGBA", "NORMAL_OCT16P"} -> 1

ComponentsOfFeature(name) ==
    CASE name \in {"BATCH_ID", "RGB565"} -> 1
      [] name = "NORMAL_OCT16P" -> 2
      [] name \in {"POSITION", "POSITION_QUANTIZED", "NORMAL", "RGB"} -> 3
      [] name = "RGBA" -> 4

BytesOfFeature(name) == options.pointsLength * ComponentsOfFeature(name) * SizeOfFeature(name)

HasExtension(json) == "extensions" \in DOMAIN json /\ DracoExtension \in DOMAIN json.extensions
ExtensionOf(json) == json.extensions[DracoExtension]
CompressedFeatures ==
    IF HasExtension(FeatureTableJson) THEN DOMAIN ExtensionOf(FeatureTableJson).properties ELSE {}
BlobLength == IF options.draco THEN ExtensionOf(FeatureTableJson).byteLength ELSE 0
RawFeatures == FeatureAttributes \ CompressedFeatures

\* C1: every byteOffset recorded in the feature table and in the returned batch table
\* (the per-point table or the per-batch table) is a multiple of the byte size of the
\* property's component type
C1_OffsetsAligned ==
    pc = "returned" =>
        /\ \A name \in FeatureAttributes :
               FeatureTableJson[name].byteOffset % SizeOfFeature(name) = 0
        /\ \A name \in (DOMAIN BatchTableJson) \ {"extensions", "name"} :
               BatchTableJson[name].byteOffset
                   % ComponentTypeSize(BatchTableJson[name].componentType) = 0

\* a raw FLOAT attribute was appended after a compressed blob whose length is no
\* multiple of 4, and starts beyond the end of the blob
C1_PaddedAfterBlob ==
    /\ pc = "returned"
    /\ options.draco
    /\ "POSITION" \in RawFeatures
    /\ BlobLength % 4 # 0
    /\ FeatureTableJson["POSITION"].byteOffset > BlobLength
    /\ FeatureTableJson["POSITION"].byteOffset % 4 = 0

RoundUp(length, size) == IF length % size = 0 THEN length ELSE length + size - (length % size)

RECURSIVE PaddedLength(_, _)
\* the length of a section that starts with `length` bytes after the raw attributes from
\* the i-th on are appended, each behind its padding
PaddedLength(i, length) ==
    IF i > Len(GenerationOrder) THEN length
    ELSE IF GenerationOrder[i] \notin RawFeatures THEN PaddedLength(i + 1, length)
    ELSE PaddedLength(i + 1, RoundUp(length, SizeOfFeature(GenerationOrder[i]))
                                 + BytesOfFeature(GenerationOrder[i]))

Scenario8 ==
    /\ options.pointsLength = 8
    /\ options.shape = "box"
    /\ options.colorMode = "rgb"
    /\ options.color = "random"
    /\ ~options.draco
    /\ ~options.generateNormals
    /\ ~options.batched

\* C2: the feature table binary is as long as the compressed blob plus every raw
\* attribute and the padding before it; 8 box points with rgb colors and no compression
\* give POINTS_LENGTH 8 and 120 bytes
C2_BinaryLength ==
    pc = "returned" =>
        /\ Len(FeatureTableBinary) = PaddedLength(1, BlobLength)
        /\ Scenario8 => /\ FeatureTableJson["POINTS_LENGTH"] = 8
                        /\ Len(FeatureTableBinary) = 120

\* normals were appended behind colors that end off a 4-byte boundary: the binary holds
\* padding between the two
C2_PaddingCounted ==
    /\ pc = "returned"
    /\ {"RGB", "NORMAL"} \subseteq RawFeatures
    /\ FeatureTableJson["NORMAL"].byteOffset
           > FeatureTableJson["RGB"].byteOffset + BytesOfFeature("RGB")
    /\ Len(FeatureTableBinary) = FeatureTableJson["NORMAL"].byteOffset + BytesOfFeature("NORMAL")

\* C3: a call returns the same two binaries as a remembered earlier call with the same
\* options, whatever calls came between them
C3_RepeatedCallsAgree ==
    (pc = "returned" /\ ref # None /\ ref.options = options) =>
        /\ FeatureTableBinary = ref.featureTableBinary
        /\ BatchTableBinary = ref.batchTableBinary

\* the two calls found the generator in different states, and both drew from it for
\* sphere points, random colors and per-batch dimensions
C3_RepeatedAfterOtherCalls ==
    /\ pc = "returned"
    /\ ref # None
    /\ ref.options = options
    /\ ref.entry # entry
    /\ options.batched
    /\ options.pointsLength > 1

\* the cardinality max(batchId) + 1 of an array of batch ids, 0 for the empty array
TrueBatchLength ==
    IF idArray = <<>> THEN 0
    ELSE (CHOOSE m \in {idArray[i] : i \in 1..Len(idArray)} :
              \A i \in 1..Len(idArray) : idArray[i] <= m) + 1

\* the unsigned integer stored low byte first in `size` bytes from buffer[at]
LittleEndian(buffer, at, size) ==
    IF size = 1 THEN buffer[at]
    ELSE IF size = 2 THEN buffer[at] + 256 * buffer[at + 1]
    ELSE buffer[at] + 256 * buffer[at + 1] + 65536 * buffer[at + 2] + 16777216 * buffer[at + 3]

\* C4: getBatchIds takes the component type from batchLength = max(batchId) + 1, at most
\* 256 giving UNSIGNED_BYTE, 257..65536 UNSIGNED_SHORT and more UNSIGNED_INT, and every
\* batch id is written whole in that width
C4_BatchIdWidth ==
    idProperty # None =>
        /\ ~idProperty.threw
        /\ idProperty.property.batchLength = TrueBatchLength
        /\ TrueBatchLength <= 256 => idProperty.property.componentType = "UNSIGNED_BYTE"
        /\ TrueBatchLength \in 257..65536 => idProperty.property.componentType = "UNSIGNED_SHORT"
        /\ TrueBatchLength > 65536 => idProperty.property.componentType = "UNSIGNED_INT"
        /\ Len(idProperty.property.buffer)
               = Len(idArray) * ComponentTypeSize(idProperty.property.componentType)
        /\ \A i \in 1..Len(idArray) :
               LittleEndian(idProperty.property.buffer,
                            (i - 1) * ComponentTypeSize(idProperty.property.componentType) + 1,
                            ComponentTypeSize(idProperty.property.componentType)) = idArray[i]

\* an array whose largest id is 65536 and also holds the id 255 was written as
\* UNSIGNED_INT
C4_WidestIds ==
    /\ idProperty # None
    /\ TrueBatchLength = 65537
    /\ \E i \in 1..Len(idArray) : idArray[i] = 255
    /\ idProperty.property.componentType = "UNSIGNED_INT"

\* C5: with draco and an explicit dracoSemantics list, the feature table extension lists
\* exactly the attributes named; every other feature table attribute lies raw in the
\* binary, at an aligned offset not before the end of the blob
C5_ListedAreCompressed ==
    (pc = "returned" /\ options.draco /\ options.dracoSemantics.defined) =>
        /\ CompressedFeatures
               = {options.dracoSemantics.names[i] : i \in 1..Len(options.dracoSemantics.names)}
        /\ \A name \in RawFeatures :
               /\ FeatureTableJson[name].byteOffset >= BlobLength
               /\ FeatureTableJson[name].byteOffset % SizeOfFeature(name) = 0
               /\ FeatureTableJson[name].byteOffset + BytesOfFeature(name)
                      <= Len(FeatureTableBinary)

\* dracoSemantics = ['POSITION'] with rgb colors: POSITION alone is in the extension, RGB
\* lies behind the blob
C5_PositionOnly ==
    /\ pc = "returned"
    /\ options.draco
    /\ options.dracoSemantics = [defined |-> TRUE, names |-> <<"POSITION">>]
    /\ CompressedFeatures = {"POSITION"}
    /\ "RGB" \in RawFeatures
    /\ BlobLength > 0
    /\ FeatureTableJson["RGB"].byteOffset >= BlobLength

\* the ids of an extension object are the positions at which the compressor was handed
\* the attributes
CarriesIds(json) ==
    /\ HasExtension(json)
    /\ \A name \in DOMAIN ExtensionOf(json).properties :
           /\ ExtensionOf(json).properties[name] \in 0..(Len(encoderLog[1].attributes) - 1)
           /\ encoderLog[1].attributes[ExtensionOf(json).properties[name] + 1] = name

\* C6 as stated: with draco both returned descriptors carry the extension object and
\* extensionsUsed names it once; without draco none of the three is there
C6_ExtensionOnBoth ==
    pc = "returned" =>
        IF options.draco
        THEN /\ CarriesIds(FeatureTableJson)
             /\ CarriesIds(BatchTableJson)
             /\ result.extensionsUsed = [names |-> <<DracoExtension>>]
        ELSE /\ ~HasExtension(FeatureTableJson)
             /\ ~HasExtension(BatchTableJson)
             /\ result.extensionsUsed = None

\* C6 amended: with draco the feature table carries the extension object and
\* extensionsUsed names it once; the returned batch table carries it when batched is
\* false and not when batched is true; without draco none of the three is there
C6_ExtensionUnlessBatched ==
    pc = "returned" =>
        IF options.draco
        THEN /\ CarriesIds(FeatureTableJson)
             /\ IF options.batched THEN ~HasExtension(BatchTableJson)
                ELSE CarriesIds(BatchTableJson)
             /\ result.extensionsUsed = [names |-> <<DracoExtension>>]
        ELSE /\ ~HasExtension(FeatureTableJson)
             /\ ~HasExtension(BatchTableJson)
             /\ result.extensionsUsed = None

\* a compressed tile with per-point properties: both descriptors list ids
C6_BothCarryIds ==
    /\ pc = "returned"
    /\ options.draco
    /\ ~options.batched
    /\ options.perPointProperties
    /\ CarriesIds(FeatureTableJson)
    /\ CarriesIds(BatchTableJson)
    /\ DOMAIN ExtensionOf(BatchTableJson).properties = {"temperature", "secondaryColor", "id"}

\* the attributes the compressor was handed in the call
HandedToCompressor ==
    {encoderLog[1].attributes[i] : i \in 1..Len(encoderLog[1].attributes)}

\* C7 as stated: the compressor is told to preserve the order whenever NORMAL is among
\* the attributes it is handed, and whenever some feature table attribute is left raw
\* while others are compressed
C7_OrderPreserved ==
    (pc = "returned" /\ options.draco) =>
        /\ "NORMAL" \in HandedToCompressor => encoderLog[1].preserveOrder
        /\ (RawFeatures # {} /\ HandedToCompressor # {}) => encoderLog[1].preserveOrder

\* C8: when the compressor reports an encoded length <= 0, the call ends in the encoding
\* error with nothing returned, and the compressor was invoked once
C8_FailureAborts ==
    (pc \in {"returned", "thrown"}
        /\ \E i \in 1..Len(encoderLog) : encoderLog[i].encodedLength <= 0) =>
        /\ pc = "thrown"
        /\ result = [status |-> "thrown", error |-> "Error: Encoding Failed."]
        /\ Len(encoderLog) = 1

\* a call whose one compressor invocation reported a length <= 0
C8_EncodingFailed ==
    /\ pc = "thrown"
    /\ options.draco
    /\ Len(encoderLog) = 1
    /\ encoderLog[1].encodedLength <= 0

\* C9: RTC_CENTER never stands beside a QUANTIZED_VOLUME field; quantized positions come
\* with both QUANTIZED_VOLUME fields and without RTC_CENTER; RTC_CENTER is written exactly
\* when positions are not quantized and relativeToCenter is true
C9_CenterOrVolume ==
    pc = "returned" =>
        /\ ~ /\ "RTC_CENTER" \in DOMAIN FeatureTableJson
             /\ {"QUANTIZED_VOLUME_OFFSET", "QUANTIZED_VOLUME_SCALE"} \cap DOMAIN FeatureTableJson # {}
        /\ "POSITION_QUANTIZED" \in FeatureAttributes =>
               /\ {"QUANTIZED_VOLUME_OFFSET", "QUANTIZED_VOLUME_SCALE"} \subseteq DOMAIN FeatureTableJson
               /\ "RTC_CENTER" \notin DOMAIN FeatureTableJson
        /\ "RTC_CENTER" \in DOMAIN FeatureTableJson
               <=> ("POSITION_QUANTIZED" \notin FeatureAttributes /\ options.relativeToCenter)

\* quantized positions with relativeToCenter true: the volume is written, the center not
C9_QuantizedAndRelative ==
    /\ pc = "returned"
    /\ "POSITION_QUANTIZED" \in FeatureAttributes
    /\ options.relativeToCenter
    /\ "QUANTIZED_VOLUME_OFFSET" \in DOMAIN FeatureTableJson
    /\ "RTC_CENTER" \notin DOMAIN FeatureTableJson

\* the descriptor and the position attribute of quantized positions
QuantizedLayout ==
    /\ {"QUANTIZED_VOLUME_OFFSET", "QUANTIZED_VOLUME_SCALE"} \subseteq DOMAIN FeatureTableJson
    /\ "RTC_CENTER" \notin DOMAIN FeatureTableJson
    /\ "POSITION_QUANTIZED" \in FeatureAttributes
    /\ "POSITION" \notin FeatureAttributes
    /\ FeatureTableJson["POSITION_QUANTIZED"].byteOffset = 0
    /\ Len(FeatureTableBinary) >= options.pointsLength * 3 * 2

\* C10 as stated: whenever the option quantizePositions is true the descriptor has the
\* two QUANTIZED_VOLUME fields and no RTC_CENTER, and the positions are POSITION_QUANTIZED
C10_QuantizedWhenAsked ==
    (pc = "returned" /\ options.quantizePositions) => QuantizedLayout

\* C10 amended: the same whenever quantizePositions is true and draco is false
C10_QuantizedWithoutDraco ==
    (pc = "returned" /\ options.quantizePositions /\ ~options.draco) => QuantizedLayout

\* quantizePositions without draco, over points that exist
C10_Quantized ==
    /\ pc = "returned"
    /\ options.quantizePositions
    /\ ~options.draco
    /\ options.pointsLength > 0
    /\ QuantizedLayout

\* the values lines 80-105 know
Shapes == {"sphere", "box"}
ColorStrategies == {"random", "gradient", "noise"}
ColorModes == {"rgb", "rgba", "rgb565", "constant", "none"}
ColorAttributes == {"RGB", "RGBA", "RGB565"}

PerPointNames == {"temperature", "secondaryColor", "id"}
PerBatchNames == {"name", "dimensions", "id"}

\* C12: the two ways of filling the batch table never mix. When batched is true the
\* returned batch table is exactly the per-batch table: name, dimensions and id for
\* BATCH_LENGTH batches (a name per batch, 12 bytes of dimensions and a 4-byte id per
\* batch) and no per-point property, whether or not perPointProperties is set. When
\* batched is false and perPointProperties is true it holds the per-point properties
\* temperature, secondaryColor and the 2-byte per-point id and nothing else.
C12_BatchTablesNeverMix ==
    pc = "returned" =>
        /\ options.batched =>
              /\ DOMAIN BatchTableJson = PerBatchNames
              /\ Len(BatchTableJson.name) = FeatureTableJson.BATCH_LENGTH
              /\ BatchTableJson.dimensions = [byteOffset |-> 0, componentType |-> "FLOAT", type |-> "VEC3"]
              /\ BatchTableJson.id = [byteOffset |-> 3 * sizeOfFloat32 * FeatureTableJson.BATCH_LENGTH,
                                      componentType |-> "UNSIGNED_INT", type |-> "SCALAR"]
              /\ Len(BatchTableBinary) = (3 * sizeOfFloat32 + sizeOfUint32) * FeatureTableJson.BATCH_LENGTH
              /\ \A i \in 1..FeatureTableJson.BATCH_LENGTH :
                    SubSeq(BatchTableBinary, BatchTableJson.id.byteOffset + sizeOfUint32 * (i - 1) + 1,
                           BatchTableJson.id.byteOffset + sizeOfUint32 * i) = UInt32Bytes(Num(i - 1))
        /\ (~options.batched /\ options.perPointProperties) =>
              /\ DOMAIN BatchTableJson \ {"extensions"} = PerPointNames
              /\ BatchTableJson.id.componentType = "UNSIGNED_SHORT"
              /\ BatchTableJson.temperature.type = "SCALAR"
              /\ BatchTableJson.secondaryColor.type = "VEC3"
              /\ ~options.draco =>
                    Len(BatchTableBinary) = (sizeOfFloat32 + 3 * sizeOfFloat32 + sizeOfUint16) * options.pointsLength

C12_BatchedWithPerPointProperties ==
    /\ pc = "returned"
    /\ options.batched
    /\ options.perPointProperties
    /\ options.pointsLength >= 1
    /\ FeatureTableJson.BATCH_LENGTH >= 1
    /\ DOMAIN BatchTableJson = PerBatchNames
\* ------------------------------------------------------------------- C13
\* the 16-bit value a two-byte little-endian buffer holds
PackedValue(buffer) == buffer[1] + 256 * buffer[2]

\* C13: getColorsRGB565 packs a color into one 16-bit value, red in the top 5 bits, green
\* in the middle 6 and blue in the low 5: for channel levels r in 0..31, g in 0..63 and
\* b in 0..31 the value written is r*2048 + g*32 + b, the write is in range (0..65535),
\* full scale (31, 63, 31) packs to 0xFFFF and (0, 0, 0) to 0x0000.
C13_PacksFiveSixFive ==
    returned # None =>
        LET r == args.levels[1]
            g == args.levels[2]
            b == args.levels[3]
            value == PackedValue(returned.property.buffer)
        IN /\ ~returned.threw
           /\ Len(returned.property.buffer) = sizeOfUint16
           /\ value = r * 2048 + g * 32 + b
           /\ value \in 0..65535
           /\ value \div 2048 = r
           /\ (value \div 32) % 64 = g
           /\ value % 32 = b
           /\ args.levels = <<31, 63, 31>> => returned.property.buffer = <<255, 255>>
           /\ args.levels = <<0, 0, 0>> => returned.property.buffer = <<0, 0>>
           /\ returned.property.propertyName = "RGB565"
           /\ returned.property.componentType = "UNSIGNED_SHORT"

C13_FullScalePacked ==
    /\ returned # None
    /\ args.colors = <<Color(Num(1), Num(1), Num(1), Num(1))>>
    /\ PackedValue(returned.property.buffer) = 65535
\* ------------------------------------------------------------------- C14
\* the raw properties of the returned batch table, in the order they were appended
BatchOrder == IF options.batched THEN <<"dimensions", "id">> ELSE <<"temperature", "secondaryColor", "id">>
CompressedBatchProperties ==
    IF HasExtension(BatchTableJson) THEN DOMAIN ExtensionOf(BatchTableJson).properties ELSE {}
RawBatchProperties ==
    ({BatchOrder[i] : i \in 1..Len(BatchOrder)} \cap DOMAIN BatchTableJson) \ CompressedBatchProperties
SizeOfBatchProperty(name) == ComponentTypeSize(BatchTableJson[name].componentType)

Largest(sizes) == CHOOSE m \in sizes : \A k \in sizes : k <= m
LastOf(order, names) ==
    order[CHOOSE i \in 1..Len(order) :
              /\ order[i] \in names
              /\ \A j \in (i + 1)..Len(order) : order[j] \notin names]

\* C14 as stated: the final length of the feature table binary and of the batch table
\* binary is a multiple of the largest component size among the attributes appended to it
C14_MultipleOfLargest ==
    pc = "returned" =>
        /\ RawFeatures # {} =>
              Len(FeatureTableBinary) % Largest({SizeOfFeature(name) : name \in RawFeatures}) = 0
        /\ RawBatchProperties # {} =>
              Len(BatchTableBinary) % Largest({SizeOfBatchProperty(name) : name \in RawBatchProperties}) = 0

\* C14: nothing is appended behind the last attribute, so the final length of each
\* section is a multiple of the component size of the last raw attribute appended to
\* it (of 1 when none was appended: the section is then the blob alone, or empty); it
\* is a multiple of the largest component size only when that attribute has it or the
\* byte counts happen to agree
C14_MultipleOfLast ==
    pc = "returned" =>
        /\ IF RawFeatures = {}
           THEN Len(FeatureTableBinary) = BlobLength
           ELSE LET last == LastOf(GenerationOrder, RawFeatures)
                IN /\ Len(FeatureTableBinary) % SizeOfFeature(last) = 0
                   /\ Len(FeatureTableBinary) = FeatureTableJson[last].byteOffset + BytesOfFeature(last)
        /\ IF RawBatchProperties = {}
           THEN Len(BatchTableBinary) = 0
           ELSE Len(BatchTableBinary) % SizeOfBatchProperty(LastOf(BatchOrder, RawBatchProperties)) = 0

\* float positions followed by byte colors, and a per-point table ending in 2-byte ids:
\* both sections end off a 4-byte boundary
C14_EndsOffLargest ==
    /\ pc = "returned"
    /\ RawFeatures = {"POSITION", "RGB"}
    /\ Len(FeatureTableBinary) % 4 = 3
    /\ RawBatchProperties = {"temperature", "secondaryColor", "id"}
    /\ Len(BatchTableBinary) % 4 = 2
\* ------------------------------------------------------------------- C15
\* the three lattice indices lines 405-407 derive from i
LatticeIndices(i, pointsLength) ==
    LET width == Width(pointsLength)
        z == i \div (width * width)
        y == (i - z * width * width) \div width
    IN <<i - width * (y + width * z), y, z>>

InsideHalf(a) == IsFinite(a) /\ a.v >= -(Scale \div 2) /\ a.v <= Scale \div 2

\* C15: for every pointsLength >= 1 and every index i below it, getPosition(i,
\* pointsLength) returns a coordinate inside [-0.5, 0.5] on each axis: the three lattice
\* indices lie in 0..width-1 and the divisor width-1 is not zero
C15_InsideUnitCube ==
    returned # None =>
        /\ InsideHalf(returned.x) /\ InsideHalf(returned.y) /\ InsideHalf(returned.z)
        /\ Width(args.pointsLength) - 1 # 0
        /\ \A k \in 1..3 :
              LatticeIndices(args.i, args.pointsLength)[k] \in 0..(Width(args.pointsLength) - 1)
\* ------------------------------------------------------------------- C16
\* the color attributes of the returned feature table, and the one a color mode names
ReturnedColorAttributes == FeatureAttributes \cap ColorAttributes
AttributeOfMode(mode) ==
    CASE mode = "rgb" -> {"RGB"}
      [] mode = "rgba" -> {"RGBA"}
      [] mode = "rgb565" -> {"RGB565"}
      [] OTHER -> {}
ColorDescribed(expected) ==
    /\ ReturnedColorAttributes = expected
    /\ ("CONSTANT_RGBA" \in DOMAIN FeatureTableJson) = (options.colorMode = "constant")
    /\ options.colorMode = "constant" => FeatureTableJson["CONSTANT_RGBA"] = <<255, 255, 0, 51>>
    /\ \A name \in ReturnedColorAttributes \cap RawFeatures :
          FeatureTableJson[name].byteOffset + BytesOfFeature(name) <= Len(FeatureTableBinary)

\* C16 as stated: colorMode alone determines the color attribute, whatever the other
\* options are: rgb gives RGB, rgba gives RGBA, rgb565 gives RGB565, constant gives no
\* color buffer and a CONSTANT_RGBA field, none gives neither
C16_ModeAloneDetermines ==
    (pc = "returned" /\ options.colorMode \in ColorModes) =>
        ColorDescribed(AttributeOfMode(options.colorMode))

\* C16: colorMode determines the color attribute as stated, except that with draco
\* rgb565 is generated as rgb (an RGB attribute of three bytes per point, no RGB565)
C16_ModeAndDracoDetermine ==
    (pc = "returned" /\ options.colorMode \in ColorModes) =>
        ColorDescribed(IF options.colorMode = "rgb565" /\ options.draco
                       THEN {"RGB"} ELSE AttributeOfMode(options.colorMode))

C16_Rgb565UnderDraco ==
    /\ pc = "returned"
    /\ options.colorMode = "rgb565"
    /\ options.draco
    /\ options.pointsLength >= 1
    /\ ReturnedColorAttributes = {"RGB"}
\* ------------------------------------------------------------------- C17
\* Math.floor(c * scale) of a channel value in [0, 1]
ScaledChannel(c, scale) == (c.v * scale) \div Scale

\* C17: getColorsRGBA stores red, green and blue as floor(c * 255) and alpha as
\* floor(alpha * 128), and for every alpha in [0, 1], the 1.0 of the gradient colors
\* included, the stored alpha stays below the 0.5 threshold: the byte is at most 127
C17_AlphaBelowHalf ==
    returned # None =>
        LET color == args.colors[1]
            bytes == returned.property.buffer
        IN /\ ~returned.threw
           /\ bytes = <<ScaledChannel(color.red, 255), ScaledChannel(color.green, 255),
                        ScaledChannel(color.blue, 255), ScaledChannel(color.alpha, 128)>>
           /\ bytes[4] <= 127
\* ------------------------------------------------------------------- C18
\* the attributes lines 110-141 collect for the two tables, from the options
GeneratedFeatures ==
    {IF QuantizePositions(options) THEN "POSITION_QUANTIZED" ELSE "POSITION"}
        \cup (IF options.colorMode = "rgb565" /\ options.draco
              THEN {"RGB"} ELSE AttributeOfMode(options.colorMode))
        \cup (IF ~options.generateNormals THEN {}
              ELSE IF OctEncodeNormals(options) THEN {"NORMAL_OCT16P"} ELSE {"NORMAL"})
        \cup (IF options.batched THEN {"BATCH_ID"} ELSE {})
GeneratedPerPoint == IF options.perPointProperties THEN PerPointNames ELSE {}

ComponentsOfType(type) ==
    CASE type = "SCALAR" -> 1 [] type = "VEC2" -> 2 [] type = "VEC3" -> 3 [] type = "VEC4" -> 4
BytesOfBatchProperty(name) ==
    options.pointsLength * ComponentsOfType(BatchTableJson[name].type) * SizeOfBatchProperty(name)

RECURSIVE PaddedBatchLength(_, _)
\* the length of the batch table binary after the raw per-point properties from the
\* i-th on are appended once each, behind their padding
PaddedBatchLength(i, length) ==
    IF i > Len(BatchOrder) THEN length
    ELSE IF BatchOrder[i] \notin RawBatchProperties THEN PaddedBatchLength(i + 1, length)
    ELSE PaddedBatchLength(i + 1, RoundUp(length, SizeOfBatchProperty(BatchOrder[i]))
                                      + BytesOfBatchProperty(BatchOrder[i]))

\* every generated feature table attribute is described; a compressed one has offset 0
\* and no bytes of its own, a raw one has its bytes once behind the blob
FeaturesCarriedOnce ==
    /\ FeatureAttributes = GeneratedFeatures
    /\ CompressedFeatures \subseteq GeneratedFeatures
    /\ \A name \in CompressedFeatures : FeatureTableJson[name].byteOffset = 0
    /\ \A name \in RawFeatures :
          /\ FeatureTableJson[name].byteOffset >= BlobLength
          /\ FeatureTableJson[name].byteOffset + BytesOfFeature(name) <= Len(FeatureTableBinary)
    /\ \A a \in RawFeatures : \A b \in RawFeatures \ {a} :
          \/ FeatureTableJson[a].byteOffset + BytesOfFeature(a) <= FeatureTableJson[b].byteOffset
          \/ FeatureTableJson[b].byteOffset + BytesOfFeature(b) <= FeatureTableJson[a].byteOffset
    /\ Len(FeatureTableBinary) = PaddedLength(1, BlobLength)

PerPointCarriedOnce ==
    /\ GeneratedPerPoint \subseteq DOMAIN BatchTableJson
    /\ DOMAIN BatchTableJson \ {"extensions"} = GeneratedPerPoint
    /\ CompressedBatchProperties \subseteq GeneratedPerPoint
    /\ \A name \in CompressedBatchProperties : BatchTableJson[name].byteOffset = 0
    /\ \A name \in RawBatchProperties :
          BatchTableJson[name].byteOffset + BytesOfBatchProperty(name) <= Len(BatchTableBinary)
    /\ \A a \in RawBatchProperties : \A b \in RawBatchProperties \ {a} :
          \/ BatchTableJson[a].byteOffset + BytesOfBatchProperty(a) <= BatchTableJson[b].byteOffset
          \/ BatchTableJson[b].byteOffset + BytesOfBatchProperty(b) <= BatchTableJson[a].byteOffset
    /\ Len(BatchTableBinary) = PaddedBatchLength(1, 0)

\* C18 as stated: for every option combination each attribute of the feature table and
\* of the per-point batch table is carried in exactly one form, compressed (in the
\* extension's properties map of its table, offset 0, no raw bytes) or raw (absent from
\* the map, its bytes appended once); none is both and none is dropped
C18_CarriedInOneForm ==
    (pc = "returned" /\ options.colorMode \in ColorModes) =>
        /\ FeaturesCarriedOnce
        /\ options.perPointProperties => PerPointCarriedOnce

\* C18: as stated for the feature table, and for the per-point batch table when batched
\* is false; when batched is true the per-point attributes are generated (and, with
\* draco, compressed into the blob) but the returned batch table is the per-batch table,
\* which carries none of them in either form
C18_CarriedInOneFormUnlessBatched ==
    (pc = "returned" /\ options.colorMode \in ColorModes) =>
        /\ FeaturesCarriedOnce
        /\ (options.perPointProperties /\ ~options.batched) => PerPointCarriedOnce
        /\ (options.perPointProperties /\ options.batched) =>
              /\ {"temperature", "secondaryColor"} \cap DOMAIN BatchTableJson = {}
              /\ CompressedBatchProperties = {}
              /\ BatchTableJson.id.componentType = "UNSIGNED_INT"

\* a tile with a compressed and a raw feature attribute and a compressed per-point table
C18_MixedForms ==
    /\ pc = "returned"
    /\ options.draco
    /\ options.perPointProperties
    /\ ~options.batched
    /\ options.pointsLength >= 1
    /\ CompressedFeatures # {}
    /\ RawFeatures # {}
    /\ CompressedBatchProperties = PerPointNames
    /\ Len(BatchTableBinary) = 0
\* ------------------------------------------------------------------- C19
NormalAttributes == {"NORMAL", "NORMAL_OCT16P"}
ReturnedNormalAttributes == FeatureAttributes \cap NormalAttributes
\* a raw attribute's bytes lie in the binary, from an offset aligned to its component
RawBytesPresent(name) ==
    name \in RawFeatures =>
        /\ FeatureTableJson[name].byteOffset % SizeOfFeature(name) = 0
        /\ FeatureTableJson[name].byteOffset + BytesOfFeature(name) <= Len(FeatureTableBinary)

\* C19: oct-encoding of normals and compression exclude each other. With draco the
\* normal attribute, if generated, is NORMAL (three floats per point) and never
\* NORMAL_OCT16P, also when octEncodeNormals is set; without draco and with
\* octEncodeNormals it is NORMAL_OCT16P (two bytes per point)
C19_OctEncodingExcludesDraco ==
    pc = "returned" =>
        /\ ReturnedNormalAttributes =
              (IF ~options.generateNormals THEN {}
               ELSE IF options.draco THEN {"NORMAL"}
               ELSE IF options.octEncodeNormals THEN {"NORMAL_OCT16P"} ELSE {"NORMAL"})
        /\ \A name \in ReturnedNormalAttributes : RawBytesPresent(name)
        /\ options.draco => "NORMAL_OCT16P" \notin DOMAIN FeatureTableJson
        /\ "NORMAL_OCT16P" \in FeatureAttributes =>
              /\ "NORMAL_OCT16P" \in RawFeatures
              /\ BytesOfFeature("NORMAL_OCT16P") = 2 * sizeOfUint8 * options.pointsLength
        /\ "NORMAL" \in FeatureAttributes =>
              BytesOfFeature("NORMAL") = 3 * sizeOfFloat32 * options.pointsLength

C19_OctAskedUnderDraco ==
    /\ pc = "returned"
    /\ options.draco
    /\ options.octEncodeNormals
    /\ options.generateNormals
    /\ options.pointsLength >= 1
    /\ ReturnedNormalAttributes = {"NORMAL"}
\* ------------------------------------------------------------------- C20
\* a channel value that every color mode scales into the range of its field
InUnitRange(c) == IsFinite(c) /\ c.v >= 0 /\ c.v <= Scale
GradientOverBox ==
    /\ pc \in {"returned", "thrown"}
    /\ options.shape = "box"
    /\ options.color = "gradient"
    /\ options.colorMode \in {"rgb", "rgba", "rgb565"}
    /\ options.pointsLength >= 1

\* C20: with the box shape, gradient colors and colorMode rgb, rgba or rgb565, for every
\* pointsLength >= 1 and every point each color channel computed from the unit position
\* lies within the range of the field it is written to, so the call never aborts on an
\* out-of-range write
C20_GradientInRange ==
    GradientOverBox =>
        /\ \A i \in 0..(options.pointsLength - 1) :
              LET color == gradientFunction(getPosition(i, options.pointsLength))
              IN InUnitRange(color.red) /\ InUnitRange(color.green) /\ InUnitRange(color.blue)
        /\ ~(pc = "thrown" /\ result.error = "RangeError")
\* ------------------------------------------------------------------- C21
\* the batch id of point i (from 1), read from the raw BATCH_ID bytes of the binary
BatchIdOf(i) ==
    LittleEndian(FeatureTableBinary,
                 FeatureTableJson["BATCH_ID"].byteOffset + (i - 1) * SizeOfFeature("BATCH_ID") + 1,
                 SizeOfFeature("BATCH_ID"))

\* C21: with batched the batch bookkeeping is consistent for every pointsLength and
\* shape: every batch id is an octant code in 0..7, BATCH_LENGTH is 1 + the largest
\* batch id written (0 for a tile without points), every value in the BATCH_ID buffer
\* is smaller than BATCH_LENGTH, and the per-batch table has BATCH_LENGTH names and
\* dimensions and id buffers sized for BATCH_LENGTH entries
C21_BatchBookkeeping ==
    (pc = "returned" /\ options.batched) =>
        LET batchLength == FeatureTableJson["BATCH_LENGTH"]
        IN /\ batchLength \in 0..8
           /\ (batchLength = 0) = (options.pointsLength = 0)
           /\ "BATCH_ID" \in FeatureAttributes
           /\ FeatureTableJson["BATCH_ID"].componentType = "UNSIGNED_BYTE"
           /\ "BATCH_ID" \in RawFeatures =>
                 /\ FeatureTableJson["BATCH_ID"].byteOffset + options.pointsLength
                        <= Len(FeatureTableBinary)
                 /\ \A i \in 1..options.pointsLength :
                       BatchIdOf(i) \in 0..7 /\ BatchIdOf(i) < batchLength
                 /\ options.pointsLength >= 1 =>
                       \E i \in 1..options.pointsLength : BatchIdOf(i) + 1 = batchLength
           /\ Len(BatchTableJson.name) = batchLength
           /\ BatchTableJson.dimensions.byteOffset = 0
           /\ BatchTableJson.id.byteOffset = batchLength * 3 * sizeOfFloat32
           /\ Len(BatchTableBinary) = batchLength * 3 * sizeOfFloat32 + batchLength * sizeOfUint32

\* a batched tile of several points in different octants, its ids raw in the binary
C21_SeveralBatches ==
    /\ pc = "returned"
    /\ options.batched
    /\ options.pointsLength >= 2
    /\ "BATCH_ID" \in RawFeatures
    /\ \E i \in 1..options.pointsLength : BatchIdOf(i) + 1 < FeatureTableJson["BATCH_LENGTH"]
    /\ \E i \in 1..options.pointsLength : BatchIdOf(i) + 1 = FeatureTableJson["BATCH_LENGTH"]
    /\ Len(BatchTableJson.name) = FeatureTableJson["BATCH_LENGTH"]
\* ------------------------------------------------------------------- C22
\* C22: in generateBatchTableBinary, for every number of buildings n >= 0 and every index
\* i < n the code written into the UNSIGNED_BYTE code property is within 0..255, so the
\* batch table binary is always produced, n * 24 + n bytes long with code.byteOffset
\* n * 24
C22_CodeWithinByte ==
    returned # None =>
        LET n == Len(args.buildings)
        IN /\ \A i \in 0..(n - 1) : BuildingCode(i) \in 0..255
           /\ ~returned.threw
           /\ Len(returned.binary) = n * 24 + n
           /\ returned.json.code.byteOffset = n * 24
           /\ returned.json.code.componentType = "UNSIGNED_BYTE"
           /\ \A i \in 0..(n - 1) : returned.binary[n * 24 + i + 1] = BuildingCode(i)
====
